---- MODULE Spec2Model ----
(***************************************************************************)
(* A model of the chat backend.  Its first and larger part is the chart    *)
(* engine:                                                                 *)
(*   backend/app/chart/chart_generator.py                                  *)
(* ChartGenerator holds one pandas DataFrame (self.df) and answers chart   *)
(* requests on it.  The data frame is modelled as a sequence of columns,   *)
(* each with its name, its dtype and its cells; every pandas call the      *)
(* source makes is modelled by what it does on such a frame, including the *)
(* exceptions it raises.  Strings are TLA+ strings, handled character by   *)
(* character with Len, Head, Tail, SubSeq and \o.                          *)
(* Its last part is the chat and file services that call the engine:       *)
(*   backend/app/chat/service.py, backend/app/chat/router.py,              *)
(*   backend/app/files/service.py, backend/app/files/router.py             *)
(* on the tables of backend/app/models.py and the upload directory.        *)
(***************************************************************************)
EXTENDS Integers, Sequences, FiniteSets, TLC

VARIABLES
    pc,     \* where the caller stands: "idle" (between calls) or "done" (a call
            \* has just ended, its outcome in ret)
    df,     \* self.df: the data frame of the generator
    df0,    \* the data frame as _load_data left it (history, never read by the code)
    call,   \* the call that has just ended; in the chat service, the request
            \* being answered
    ret,    \* what it returned or raised; in the chat service, the response
    db      \* the tables of the database and the files of the upload directory

vars == <<pc, df, df0, call, ret, db>>

----------------------------------------------------------------------------
(* Bounds of the model.                                                    *)

\* rows of a sheet
MaxRows == 3
\* columns of a sheet
MaxCols == 2
\* columns of a sheet on which only scatter charts are drawn
MaxScatterCols == 3
\* length of a candidate list handed to _find_best_column_match on its own
MaxCands == 2
\* words of a generated chat message
MaxWords == 4
\* rows of a sheet on which only the loading is followed
MaxLoadRows == 22
\* rows of a sheet on which the cut to the top bars and slices is followed
MaxTopRows == 22

----------------------------------------------------------------------------
(* Python values.                                                          *)

\* Optional[str]: None or a string
None == [some |-> FALSE, v |-> ""]
Some(s) == [some |-> TRUE, v |-> s]

\* the outcome of a call: a returned value or a raised exception
Return(x) == [raised |-> FALSE, exc |-> "", msg |-> "", val |-> x]
Raise(e, m) == [raised |-> TRUE, exc |-> e, msg |-> m, val |-> <<>>]

Min(S) == CHOOSE x \in S : \A y \in S : x <= y
Max(S) == CHOOSE x \in S : \A y \in S : x >= y

\* list membership (x in xs), and the elements of xs that keep marks
InList(x, xs) == \E i \in 1..Len(xs) : xs[i] = x
RECURSIVE Filter(_, _)
Filter(xs, keep) ==
    IF xs = <<>> THEN <<>>
    ELSE (IF keep[Head(xs)] THEN <<Head(xs)>> ELSE <<>>) \o Filter(Tail(xs), keep)
\* the elements of xs at the positions that keep marks
RECURSIVE FilterFrom(_, _, _)
FilterFrom(xs, keep, i) ==
    IF i > Len(xs) THEN <<>>
    ELSE (IF keep[i] THEN <<xs[i]>> ELSE <<>>) \o FilterFrom(xs, keep, i + 1)
Filter2(xs, keep) == FilterFrom(xs, keep, 1)

----------------------------------------------------------------------------
(* str methods.                                                            *)

\* str.lower(), on the letters the model's strings use
UpperCase == "ABCDEFGHIJKLMNOPQRSTUVWXYZ"
LowerCase == "abcdefghijklmnopqrstuvwxyz"
LowerOf ==
    [c \in {SubSeq(UpperCase, i, i) : i \in 1..Len(UpperCase)} |->
        LET i == CHOOSE j \in 1..Len(UpperCase) : SubSeq(UpperCase, j, j) = c
        IN  SubSeq(LowerCase, i, i)]
LowerChar(c) == IF c \in DOMAIN LowerOf THEN LowerOf[c] ELSE c

RECURSIVE Lower(_)
Lower(s) == IF s = "" THEN "" ELSE LowerChar(Head(s)) \o Lower(Tail(s))

\* str.strip(): leading and trailing blanks removed
RECURSIVE LStrip(_)
LStrip(s) == IF s # "" /\ Head(s) = " " THEN LStrip(Tail(s)) ELSE s
RECURSIVE RStrip(_)
RStrip(s) ==
    IF s # "" /\ SubSeq(s, Len(s), Len(s)) = " "
    THEN RStrip(SubSeq(s, 1, Len(s) - 1)) ELSE s
Strip(s) == RStrip(LStrip(s))

\* sub in s
Contains(sub, s) ==
    \E i \in 1..(Len(s) - Len(sub) + 1) : SubSeq(s, i, i + Len(sub) - 1) = sub
\* s.startswith(p), s.endswith(p)
StartsWith(s, p) == Len(p) <= Len(s) /\ SubSeq(s, 1, Len(p)) = p
EndsWith(s, p) == Len(p) <= Len(s) /\ SubSeq(s, Len(s) - Len(p) + 1, Len(s)) = p

----------------------------------------------------------------------------
(* ChartGenerator._find_best_column_match                                  *)

\* the mappings table: the keyword lists of the seven semantic targets
mappings ==
    [t \in {"sales", "region", "date", "product", "price", "quantity", "total"} |->
        CASE t = "sales" ->
               <<"total", "sales", "revenue", "amount", "price", "quantity", "count">>
          [] t = "region" ->
               <<"region", "area", "location", "place", "zone", "territory">>
          [] t = "date" -> <<"date", "time", "day", "month", "year">>
          [] t = "product" -> <<"product", "item", "name", "title">>
          [] t = "price" -> <<"price", "cost", "amount", "unit price", "total">>
          [] t = "quantity" -> <<"quantity", "qty", "count", "number", "amount">>
          [] t = "total" -> <<"total", "sum", "amount", "sales", "revenue">>]

\* lines 46-50: the first column equal to the target, lower-cased
DirectMatch(target_lower, cols) ==
    LET hit == {i \in 1..Len(cols) : Lower(cols[i]) = target_lower}
    IN  IF hit = {} THEN None ELSE Some(cols[Min(hit)])

\* the substring step without its second test, `col.lower() in target_lower`
SubstringMatchOneDirection(target_lower, cols) ==
    LET hit == {i \in 1..Len(cols) : Contains(target_lower, Lower(cols[i]))}
    IN  IF hit = {} THEN None ELSE Some(cols[Min(hit)])

\* lines 52-56: the first column that holds the target or that the target holds
SubstringMatch(target_lower, cols) ==
    LET hit == {i \in 1..Len(cols) :
                   \/ Contains(target_lower, Lower(cols[i]))
                   \/ Contains(Lower(cols[i]), target_lower)}
    IN  IF hit = {} THEN None ELSE Some(cols[Min(hit)])

\* lines 76-89: the test the semantic step makes of one column for one keyword
KeywordHit(keyword, col) ==
    LET col_lower == Lower(col)
    IN  \/ col_lower = keyword
        \/ /\ Contains(keyword, col_lower)
           /\ \/ StartsWith(col_lower, keyword \o " ")
              \/ EndsWith(col_lower, " " \o keyword)
              \/ Contains(" " \o keyword \o " ", col_lower)

\* the column of the first pair <<keyword, column>> of hit, keywords in list
\* order and columns in candidate order
FirstOfPairs(hit, cols) ==
    IF hit = {} THEN None
    ELSE LET k == Min({p[1] : p \in hit})
         IN  Some(cols[Min({p[2] : p \in {q \in hit : q[1] = k}})])

\* lines 70-89: keywords in list order, columns in candidate order, first hit wins
SemanticMatch(target_lower, cols) ==
    IF target_lower \notin DOMAIN mappings THEN None
    ELSE FirstOfPairs({p \in (1..Len(mappings[target_lower])) \X (1..Len(cols)) :
                          KeywordHit(mappings[target_lower][p[1]], cols[p[2]])}, cols)

\* `return col` of a step that found a column, else the steps after it
OrElse(found, rest) == IF found.some THEN found ELSE rest

\* lines 46-92, on the target lower-cased and stripped
MatchLowered(target_lower, cols) ==
    OrElse(DirectMatch(target_lower, cols),
           OrElse(SubstringMatch(target_lower, cols), SemanticMatch(target_lower, cols)))

\* lines 42-92, for a target that is a string
BestColumnMatch(target, cols) == MatchLowered(Strip(Lower(target)), cols)

\* lines 30-92: target is an Optional[str] at the call sites; None.lower() raises
_find_best_column_match(target, candidate_columns) ==
    IF ~target.some
    THEN Raise("AttributeError", "'NoneType' object has no attribute 'lower'")
    ELSE Return(BestColumnMatch(target.v, candidate_columns))

----------------------------------------------------------------------------
(* The data frame.  A cell is a number, a text that is no number, a text   *)
(* that reads as a number ("12"), or missing (NaN).  A column has the      *)
(* dtype pandas gave it: "num" (int64/float64) or "obj" (object).          *)

Num(n) == [k |-> "num", v |-> n]
Txt(i) == [k |-> "txt", v |-> i]
NumTxt(n) == [k |-> "numtxt", v |-> n]
NaN == [k |-> "nan", v |-> 0]

Column(name, dtype, vals) == [name |-> name, dtype |-> dtype, vals |-> vals]
Frame(nrows, cols) == [loaded |-> TRUE, nrows |-> nrows, cols |-> cols]
\* self.df = None (line 27)
NoFrame == [loaded |-> FALSE, nrows |-> 0, cols |-> <<>>]

\* list(self.df.columns)
columns(d) == [i \in 1..Len(d.cols) |-> d.cols[i].name]
\* name in self.df.columns, for an Optional[str] (None is in no index)
InColumns(d, name) == name.some /\ InList(name.v, columns(d))
\* self.df[name], for a name of the frame
Col(d, name) == d.cols[Min({i \in 1..Len(d.cols) : d.cols[i].name = name})]
\* pd.api.types.is_numeric_dtype(self.df[name])
is_numeric_dtype(d, name) == Col(d, name).dtype = "num"

\* Series.dropna()
RECURSIVE dropna(_)
dropna(vals) ==
    IF vals = <<>> THEN <<>>
    ELSE (IF Head(vals).k = "nan" THEN <<>> ELSE <<Head(vals)>>) \o dropna(Tail(vals))
\* Series.head(n)
head(xs, n) == SubSeq(xs, 1, IF Len(xs) < n THEN Len(xs) ELSE n)

\* pd.to_numeric(x, errors='coerce') of one cell
to_numeric_cell(c) ==
    CASE c.k = "num" -> c
      [] c.k = "numtxt" -> Num(c.v)
      [] OTHER -> NaN
\* pd.to_numeric(series, errors='coerce')
to_numeric(vals) == [i \in 1..Len(vals) |-> to_numeric_cell(vals[i])]
\* converted.notna().sum()
notna_sum(vals) == Cardinality({i \in 1..Len(vals) : vals[i].k # "nan"})

\* the dtype pd.read_excel gives a column: numbers and blanks only make a numeric
\* column, any text makes an object column, and so does a column without rows
read_excel_dtype(vals) ==
    IF vals # <<>> /\ \A i \in 1..Len(vals) : vals[i].k \in {"num", "nan"}
    THEN "num" ELSE "obj"

\* line 112 and line 175: converted.notna().sum() / len(converted) > 0.8
MostlyNumeric(sample) == 10 * notna_sum(to_numeric(sample)) > 8 * Len(sample)

\* lines 102-115: an object column whose first 20 values are mostly numbers is
\* converted, its other cells becoming NaN
load_column(c) ==
    LET name == Lower(Strip(c.name))
        sample == head(dropna(c.vals), 20)
    IN  IF c.dtype # "num" /\ Len(sample) > 0 /\ MostlyNumeric(sample)
        THEN Column(name, "num", to_numeric(c.vals))
        ELSE Column(name, c.dtype, c.vals)

\* line 99: the names after str(col).strip().lower()
normalised(sheet) == [i \in 1..Len(sheet.cols) |-> Lower(Strip(sheet.cols[i].name))]

\* self.df[col] is a frame of several columns when another column has the name
shared_name(names, i) == \E j \in 1..Len(names) : j # i /\ names[j] = names[i]

\* lines 101-115 for a name several columns have: is_numeric_dtype of a frame
\* is False, pd.to_numeric of a frame raises TypeError, line 114 passes over
\* it, and the column stays as it was read
load_shared(c) == Column(Lower(Strip(c.name)), c.dtype, c.vals)

\* lines 94-125, on the frame pd.read_excel returned
_load_data(sheet) ==
    Frame(sheet.nrows,
          [i \in 1..Len(sheet.cols) |->
              IF shared_name(normalised(sheet), i) THEN load_shared(sheet.cols[i])
              ELSE load_column(sheet.cols[i])])

----------------------------------------------------------------------------
(* ChartGenerator.find_suitable_columns                                    *)

\* lines 159-178: the columns of numeric dtype, then the object columns of
\* which more than 80% of the first 10 values convert
numeric_cols(d) ==
    LET cs == columns(d)
        byDtype == Filter(cs, [c \in {cs[i] : i \in 1..Len(cs)} |-> is_numeric_dtype(d, c)])
        convertible ==
            Filter(cs, [c \in {cs[i] : i \in 1..Len(cs)} |->
                LET sample == head(dropna(Col(d, c).vals), 10)
                IN  /\ ~InList(c, byDtype)
                    /\ ~is_numeric_dtype(d, c)
                    /\ Len(sample) > 0
                    /\ MostlyNumeric(sample)])
    IN  byDtype \o convertible

\* Series.nunique() and max() - min() of the values that are not missing
nunique(vals) == Cardinality({vals[i] : i \in 1..Len(vals)})
val_range(vals) ==
    Max({vals[i].v : i \in 1..Len(vals)}) - Min({vals[i].v : i \in 1..Len(vals)})

\* lines 184-196: the test of one column of numeric_cols
TrulyNumericLoose(d, c) ==
    /\ is_numeric_dtype(d, c)
    /\ LET numeric_vals == dropna(Col(d, c).vals)
       IN  Len(numeric_vals) > 0

TrulyNumeric(d, c) ==
    /\ is_numeric_dtype(d, c)
    /\ LET numeric_vals == dropna(Col(d, c).vals)
       IN  /\ Len(numeric_vals) > 0
           /\ nunique(numeric_vals) > 2
           /\ val_range(numeric_vals) > 0

\* lines 182-196
true_numeric_cols(d) ==
    LET ns == numeric_cols(d)
    IN  Filter(ns, [c \in {ns[i] : i \in 1..Len(ns)} |-> TrulyNumeric(d, c)])

\* the columns that are not of numeric dtype
categorical_cols_by_dtype(d) ==
    LET cs == columns(d)
    IN  Filter(cs, [c \in {cs[i] : i \in 1..Len(cs)} |-> ~is_numeric_dtype(d, c)])

\* lines 202-205
categorical_cols(d) ==
    LET cs == columns(d)
        tn == true_numeric_cols(d)
    IN  Filter(cs, [c \in {cs[i] : i \in 1..Len(cs)} |-> ~InList(c, tn)])

\* lines 149-214, for a loaded frame (suitable = self.find_suitable_columns())
suitable(d) == [numeric |-> true_numeric_cols(d), categorical |-> categorical_cols(d)]

find_suitable_columns(d) ==
    IF ~d.loaded THEN Return([numeric |-> <<>>, categorical |-> <<>>, empty |-> TRUE])
    ELSE Return([numeric |-> suitable(d).numeric,
                 categorical |-> suitable(d).categorical, empty |-> FALSE])

----------------------------------------------------------------------------
(* ChartGenerator.get_column_info and ChartGenerator.get_data_summary      *)

\* lines 138-145: the entry of one column
column_info(c) ==
    [name |-> c.name,
     type |-> IF c.dtype = "num" THEN "numeric" ELSE "categorical",
     dtype |-> c.dtype,
     sample_values |-> head(dropna(c.vals), 3)]

\* lines 127-147: no entry without a frame
get_column_info(d) ==
    IF ~d.loaded THEN Return(<<>>)
    ELSE Return([i \in 1..Len(d.cols) |-> column_info(d.cols[i])])

\* lines 795-811: an empty dict without a frame
get_data_summary(d) ==
    IF ~d.loaded
    THEN Return([empty |-> TRUE, rows |-> 0, columns |-> 0, column_names |-> <<>>,
                 numeric_columns |-> <<>>, categorical_columns |-> <<>>])
    ELSE Return([empty |-> FALSE, rows |-> d.nrows, columns |-> Len(d.cols),
                 column_names |-> columns(d),
                 numeric_columns |-> find_suitable_columns(d).val.numeric,
                 categorical_columns |-> find_suitable_columns(d).val.categorical])

----------------------------------------------------------------------------
(* The pandas and Python operations of the generators.                     *)

\* str(x) of a cell: the text of a text cell, the digits of a number
TxtNames == "abcdefghijklmnopqrstuvwxyz"
CellStr(c) ==
    CASE c.k = "txt" -> SubSeq(TxtNames, c.v, c.v)
      [] c.k = "nan" -> "nan"
      [] OTHER -> ToString(c.v)

\* float(x) of a cell: a text that is no number raises ValueError
float(c) ==
    CASE c.k = "txt" -> Raise("ValueError", "could not convert string to float")
      [] c.k = "numtxt" -> Return(Num(c.v))
      [] OTHER -> Return(c)

\* s < t for Python strings over the characters of CellStr
CharOrder == "-0123456789abcdefghijklmnopqrstuvwxyz"
CharRankOf ==
    [c \in {SubSeq(CharOrder, i, i) : i \in 1..Len(CharOrder)} |->
        CHOOSE j \in 1..Len(CharOrder) : SubSeq(CharOrder, j, j) = c]
RECURSIVE StrLess(_, _)
StrLess(s, t) ==
    IF t = "" THEN FALSE
    ELSE IF s = "" THEN TRUE
    ELSE IF Head(s) = Head(t) THEN StrLess(Tail(s), Tail(t))
    ELSE CharRankOf[Head(s)] < CharRankOf[Head(t)]

IsText(c) == c.k \in {"txt", "numtxt"}
\* a < b for two cells Python can compare: two numbers or two texts
CellLess(a, b) ==
    IF a.k = "num" /\ b.k = "num" THEN a.v < b.v
    ELSE StrLess(CellStr(a), CellStr(b))
\* the cells that are not missing can all be compared with one another
Comparable(vals) ==
    \/ \A i \in 1..Len(vals) : vals[i].k \in {"num", "nan"}
    \/ \A i \in 1..Len(vals) : IsText(vals[i]) \/ vals[i].k = "nan"
\* the order in which pandas lists group keys of several types: numbers first
KeyLess(a, b) ==
    IF a.k = "num" /\ IsText(b) THEN TRUE
    ELSE IF IsText(a) /\ b.k = "num" THEN FALSE
    ELSE CellLess(a, b)

\* the positions of ks, sorted by cell: ascending or descending, missing cells
\* last, equal cells in their order in ks (sort_values)
RECURSIVE SortIdx(_, _, _)
SortIdx(ks, rem, ascending) ==
    IF rem = {} THEN <<>>
    ELSE LET Before(i, j) ==
                 IF ks[i].k = "nan" \/ ks[j].k = "nan"
                 THEN (ks[i].k # "nan") \/ (ks[j].k = "nan" /\ i <= j)
                 ELSE IF ks[i] = ks[j] THEN i <= j
                 ELSE IF ascending THEN CellLess(ks[i], ks[j]) ELSE CellLess(ks[j], ks[i])
             best == CHOOSE i \in rem : \A j \in rem : Before(i, j)
         IN  <<best>> \o SortIdx(ks, rem \ {best}, ascending)

\* DataFrame.sort_values(col, ascending): the row numbers in the new order, or
\* the TypeError of comparing a text with a number
sort_values(d, col, ascending) ==
    LET ks == Col(d, col).vals
    IN  IF ~Comparable(ks)
        THEN Raise("TypeError", "'<' not supported between instances of 'str' and 'int'")
        ELSE Return(SortIdx(ks, 1..Len(ks), ascending))

\* the group keys of a column: its distinct values that are not missing, sorted
RECURSIVE SortKeys(_)
SortKeys(S) ==
    IF S = {} THEN <<>>
    ELSE LET least == CHOOSE a \in S : \A b \in S : a = b \/ KeyLess(a, b)
         IN  <<least>> \o SortKeys(S \ {least})
group_keys(vals) == SortKeys({vals[i] : i \in 1..Len(vals)} \ {NaN})

\* the digits of b written after the digits of a ("1" + "2" = "12")
RECURSIVE Pow10Above(_, _)
Pow10Above(b, p) == IF b < p THEN p ELSE Pow10Above(b, 10 * p)
ConcatDigits(a, b) == a * Pow10Above(b, 10) + b

\* sum() of the cells of one group: numbers add up, missing cells are skipped,
\* texts are joined, a text and a number raise TypeError
RECURSIVE SumCells(_, _)
SumCells(acc, cells) ==
    IF cells = <<>> THEN Return(acc)
    ELSE LET c == Head(cells)
         IN  IF c.k = "nan" THEN SumCells(acc, Tail(cells))
             ELSE IF acc.k = "nan" THEN SumCells(c, Tail(cells))
             ELSE IF acc.k = "num" /\ c.k = "num"
                  THEN SumCells(Num(acc.v + c.v), Tail(cells))
             ELSE IF acc.k = "numtxt" /\ c.k = "numtxt"
                  THEN SumCells(NumTxt(ConcatDigits(acc.v, c.v)), Tail(cells))
             ELSE IF IsText(acc) /\ IsText(c)
                  THEN SumCells(Txt(IF acc.k = "txt" THEN acc.v ELSE c.v), Tail(cells))
             ELSE Raise("TypeError", "unsupported operand type(s) for +: 'int' and 'str'")

group_sum(cells) ==
    LET r == SumCells(NaN, cells)
    IN  IF r.raised THEN r ELSE IF r.val.k = "nan" THEN Return(Num(0)) ELSE r

\* the sum of the value cells of every group, in the order of the keys
group_sums(lab, val, keys) ==
    [g \in 1..Len(keys) |->
        group_sum(Filter2(val, [i \in 1..Len(val) |-> lab[i] = keys[g]]))]

\* .head(top_n) of the groups in the order given: rows <<key, sum>>
head_rows(keys, sumv, order, top_n) ==
    head([r \in 1..Len(keys) |-> <<keys[order[r]], sumv[order[r]]>>], top_n)

\* .sort_values(value, ascending=False).head(top_n) of the grouped frame
sorted_sums(keys, sumv, top_n) ==
    IF ~Comparable(sumv)
    THEN Raise("TypeError", "'<' not supported between instances of 'str' and 'int'")
    ELSE Return(head_rows(keys, sumv, SortIdx(sumv, 1..Len(keys), FALSE), top_n))

\* .sum().reset_index(): a sum that fails raises, and so does reset_index when
\* the label column is the value column
summed_groups(keys, sums, same_column, top_n) ==
    IF \E g \in 1..Len(keys) : sums[g].raised
    THEN sums[Min({g \in 1..Len(keys) : sums[g].raised})]
    ELSE IF same_column
    THEN Raise("ValueError", "cannot insert column, already exists")
    ELSE sorted_sums(keys, [g \in 1..Len(keys) |-> sums[g].val], top_n)

\* self.df.groupby(label)[value].sum().reset_index()
\*        .sort_values(value, ascending=False).head(top_n):
\* the rows <<key, sum>> of the grouped frame, or the exception raised
groupby_sum_sorted(d, label, value, top_n) ==
    summed_groups(group_keys(Col(d, label).vals),
                  group_sums(Col(d, label).vals, Col(d, value).vals,
                             group_keys(Col(d, label).vals)),
                  label = value, top_n)

----------------------------------------------------------------------------
(* ChartGenerator.generate_pie_chart                                       *)

\* what a generator leaves: its outcome and self.df
Left(out, d) == [out |-> out, df |-> d]

\* the first match that is a column of the list wanted
FirstWanted(matches, wanted) ==
    LET ok == {t \in 1..Len(matches) :
                  matches[t].some /\ matches[t].v # "" /\ InList(matches[t].v, wanted)}
    IN  IF ok = {} THEN None ELSE matches[Min(ok)]

\* the loops of lines 249-254, 274-279 and 348-353: the match of the first
\* target whose match is in the list wanted
FirstPreferred(targets, all_cols, wanted) ==
    FirstWanted([t \in 1..Len(targets) |-> BestColumnMatch(targets[t], all_cols)], wanted)

\* lines 243-267: the label column when the caller names none
pie_auto_label(d, s) ==
    OrElse(FirstPreferred(<<"region", "category", "type", "product">>,
                          columns(d), s.categorical),
           IF s.categorical # <<>> THEN Some(s.categorical[1])
           ELSE IF Len(s.numeric) > 1 THEN Some(s.numeric[1])
           ELSE IF Len(d.cols) > 0 THEN Some(columns(d)[1])
           ELSE None)

\* the value column without the test of line 285 for the label column
pie_auto_value_first_numeric(d, s, label_column) ==
    OrElse(FirstPreferred(<<"sales", "total", "revenue", "amount">>,
                          columns(d), s.numeric),
           IF s.numeric # <<>> THEN Some(s.numeric[1])
           ELSE IF Len(d.cols) > 1 THEN Some(columns(d)[2])
           ELSE None)

\* lines 269-294: the value column when the caller names none
pie_auto_value(d, s, label_column) ==
    OrElse(FirstPreferred(<<"sales", "total", "revenue", "amount">>,
                          columns(d), s.numeric),
           IF s.numeric # <<>>
           THEN IF Some(s.numeric[1]) = label_column /\ Len(s.numeric) > 1
                THEN Some(s.numeric[2]) ELSE Some(s.numeric[1])
           ELSE IF Len(d.cols) > 1 THEN Some(columns(d)[2])
           ELSE None)

\* `if matched: name = matched`
MatchedOr(matched, name) == IF matched.some /\ matched.v # "" THEN matched ELSE name

\* lines 302-310: a name that is no column is replaced by its best match, if any
resolve_hint(d, name) ==
    IF InColumns(d, name) THEN name
    ELSE MatchedOr(BestColumnMatch(name.v, columns(d)), name)

\* lines 316-325: the second attempt, through the target "region" or "sales"
pie_second_try(d, name, word, target, fallback) ==
    IF InColumns(d, name) THEN name
    ELSE OrElse(BestColumnMatch(IF Contains(word, Lower(name.v)) THEN word ELSE target,
                                columns(d)),
                IF fallback # <<>> THEN Some(fallback[1]) ELSE None)

\* lines 354-361: the first column of suitable["numeric"], if there is one
first_numeric_or(matched, s, value_column) ==
    IF matched.some THEN matched.v
    ELSE IF s.numeric # <<>> THEN s.numeric[1]
    ELSE value_column

\* lines 343-361: a value column that is not of numeric dtype gives way to a
\* numeric column, if the frame has one
pie_numeric_value(d, s, value_column) ==
    IF is_numeric_dtype(d, value_column) THEN value_column
    ELSE first_numeric_or(
             FirstPreferred(<<"total", "sales", "revenue", "amount", "price", "quantity">>,
                            columns(d), s.numeric),
             s, value_column)

\* line 371: self.df[value_column] = pd.to_numeric(self.df[value_column], errors='coerce')
coerce_column(d, value_column) ==
    [d EXCEPT !.cols = [i \in 1..Len(d.cols) |->
        IF d.cols[i].name = value_column
        THEN Column(value_column, "num", to_numeric(d.cols[i].vals))
        ELSE d.cols[i]]]

\* lines 381-384, 503-506, 565-568: [{"name": str(..), "value": float(..)} ...]
\* of rows <<label cell, value cell>>; the first float() that fails raises
name_value_points(rows) ==
    IF \E r \in 1..Len(rows) : float(rows[r][2]).raised
    THEN Raise("ValueError", "could not convert string to float")
    ELSE Return([r \in 1..Len(rows) |->
                    [name |-> CellStr(rows[r][1]), value |-> float(rows[r][2]).val]])

\* lines 381-392: the configuration, on the frame the grouping left
pie_config(after, label_column, value_column, data) ==
    IF data.raised THEN Left(data, after)
    ELSE Left(Return([data |-> data.val,
                      title |-> value_column \o " by " \o label_column,
                      valueKey |-> "value",
                      xKey |-> "name",
                      yKey |-> "value"]), after)

\* lines 374-392: a second failure raises, a grouped frame is drawn
pie_build(after, label_column, value_column, grouped) ==
    IF grouped.raised
    THEN Left(Raise("ValueError", "Could not create chart with columns"), after)
    ELSE pie_config(after, label_column, value_column, name_value_points(grouped.val))

\* lines 367-373: the first grouping failed; the value column is coerced in
\* self.df and the grouping is tried once more
pie_retry(d2, label_column, value_column, top_n) ==
    pie_build(d2, label_column, value_column,
              groupby_sum_sorted(d2, label_column, value_column, top_n))

\* lines 363-366: the first grouping
pie_first_try(d, label_column, value_column, top_n, first) ==
    IF first.raised
    THEN pie_retry(coerce_column(d, value_column), label_column, value_column, top_n)
    ELSE pie_build(d, label_column, value_column, first)

\* lines 363-392: group, sum, sort and cut; on a failure coerce the value column
\* and try once more
pie_group_and_build(d, label_column, value_column, top_n) ==
    pie_first_try(d, label_column, value_column, top_n,
                  groupby_sum_sorted(d, label_column, value_column, top_n))

NoneLower == Raise("AttributeError", "'NoneType' object has no attribute 'lower'")

\* lines 330-392, with the columns the second attempt left
pie_checked(d, s, label3, value3, top_n) ==
    IF ~label3.some \/ ~value3.some
    THEN Left(Raise("ValueError",
                    "Cannot create pie chart: need at least one numeric column"), d)
    ELSE IF ~InColumns(d, label3) \/ ~InColumns(d, value3)
    THEN Left(Raise("ValueError", "Columns not found in data"), d)
    ELSE pie_group_and_build(d, label3.v, pie_numeric_value(d, s, value3.v), top_n)

\* lines 313-325, with the columns the first attempt left
pie_resolved(d, s, label2, value2, top_n) ==
    IF ~InColumns(d, label2) \/ ~InColumns(d, value2)
    THEN pie_checked(d, s, pie_second_try(d, label2, "label", "region", s.categorical),
                     pie_second_try(d, value2, "value", "sales", s.numeric), top_n)
    ELSE pie_checked(d, s, label2, value2, top_n)

\* lines 302-310, with the columns named or detected; a column that is still
\* None reaches target.lower() at line 42
pie_detected(d, s, label1, value1, top_n) ==
    IF ~label1.some \/ ~value1.some THEN Left(NoneLower, d)
    ELSE pie_resolved(d, s, resolve_hint(d, label1), resolve_hint(d, value1), top_n)

\* lines 269-294, with the label column named or detected
pie_labelled(d, s, label1, value_column, top_n) ==
    pie_detected(d, s, label1,
                 IF value_column.some THEN value_column ELSE pie_auto_value(d, s, label1),
                 top_n)

\* lines 236-267
pie_chart(d, s, label_column, value_column, top_n) ==
    pie_labelled(d, s, IF label_column.some THEN label_column ELSE pie_auto_label(d, s),
                 value_column, top_n)

\* lines 216-392
generate_pie_chart(d, label_column, value_column, top_n) ==
    IF ~d.loaded THEN Left(Raise("ValueError", "No data loaded"), d)
    ELSE pie_chart(d, suitable(d), label_column, value_column, top_n)

----------------------------------------------------------------------------
(* ChartGenerator.generate_bar_chart                                       *)

\* lines 423-430 and 442-449: the first column of the list that holds the first
\* keyword some column of the list holds
FirstKeywordColumn(keywords, cols) ==
    FirstOfPairs({p \in (1..Len(keywords)) \X (1..Len(cols)) :
                     Contains(keywords[p[1]], cols[p[2]])}, cols)

\* lines 418-435
bar_auto_x(d, s) ==
    OrElse(FirstKeywordColumn(<<"region", "category", "type", "name", "product", "item",
                                "area", "location", "zone", "territory">>, s.categorical),
           IF s.categorical # <<>> THEN Some(s.categorical[1])
           ELSE IF Len(d.cols) > 0 THEN Some(columns(d)[1])
           ELSE None)

\* lines 437-455
bar_auto_y(d, s, x_column) ==
    OrElse(FirstKeywordColumn(<<"total", "sales", "amount", "revenue", "price", "value",
                                "cost", "sum", "count", "quantity">>, s.numeric),
           IF s.numeric # <<>>
           THEN IF Some(s.numeric[1]) = x_column /\ Len(s.numeric) > 1
                THEN Some(s.numeric[2]) ELSE Some(s.numeric[1])
           ELSE None)

\* the rows <<x cell, y cell>> of the frame in the order given
rows_of(d, x_column, y_column, order) ==
    [r \in 1..Len(order) |->
        <<Col(d, x_column).vals[order[r]], Col(d, y_column).vals[order[r]]>>]

\* lines 508-513 and 570-575: the configuration of a bar or line chart
name_value_config(title, data) ==
    IF data.raised THEN data
    ELSE Return([data |-> data.val,
                 title |-> title,
                 xKey |-> "name",
                 yKey |-> "value"])

\* lines 503-513, of the rows aggregated or of what the aggregation raised
bar_build(x_column, y_column, rows) ==
    IF rows.raised THEN rows
    ELSE name_value_config(y_column \o " by " \o x_column, name_value_points(rows.val))

\* line 501: .sort_values(y_column, ascending=False).head(top_n)
bar_sorted_rows(d, x_column, y_column, top_n, sorted) ==
    IF sorted.raised THEN sorted
    ELSE Return(head(rows_of(d, x_column, y_column, sorted.val), top_n))

\* lines 494-513: rows grouped by a label that is not of numeric dtype, rows
\* only sorted by a label that is; nothing is caught
bar_aggregate_and_build(d, x_column, y_column, top_n) ==
    bar_build(x_column, y_column,
              IF ~is_numeric_dtype(d, x_column)
              THEN groupby_sum_sorted(d, x_column, y_column, top_n)
              ELSE bar_sorted_rows(d, x_column, y_column, top_n,
                                   sort_values(d, y_column, FALSE)))

\* lines 491-513, with the columns the fallbacks of lines 484-489 left
bar_checked(d, x3, y3, top_n) ==
    IF ~InColumns(d, x3) \/ ~InColumns(d, y3)
    THEN Left(Raise("ValueError", "Columns not found in data"), d)
    ELSE Left(bar_aggregate_and_build(d, x3.v, y3.v, top_n), d)

\* lines 476-489, with the columns the matcher left
bar_resolved(d, s, x2, y2, top_n) ==
    IF ~x2.some \/ ~y2.some
    THEN Left(Raise("ValueError",
                    "Cannot create bar chart: need at least one numeric column"), d)
    ELSE bar_checked(d,
                     IF ~InColumns(d, x2) /\ s.categorical # <<>>
                     THEN Some(s.categorical[1]) ELSE x2,
                     IF ~InColumns(d, y2) /\ s.numeric # <<>>
                     THEN Some(s.numeric[1]) ELSE y2,
                     top_n)

\* lines 463-471, with the columns named or detected:
\* `if x_column and x_column not in self.df.columns`
bar_detected(d, s, x1, y1, top_n) ==
    bar_resolved(d, s,
                 IF x1.some /\ x1.v # "" THEN resolve_hint(d, x1) ELSE x1,
                 IF y1.some /\ y1.v # "" THEN resolve_hint(d, y1) ELSE y1,
                 top_n)

\* lines 437-455, with the x column named or detected
bar_labelled(d, s, x1, y_column, top_n) ==
    bar_detected(d, s, x1, IF y_column.some THEN y_column ELSE bar_auto_y(d, s, x1), top_n)

\* lines 415-435
bar_chart(d, s, x_column, y_column, top_n) ==
    bar_labelled(d, s, IF x_column.some THEN x_column ELSE bar_auto_x(d, s),
                 y_column, top_n)

\* lines 394-513
generate_bar_chart(d, x_column, y_column, top_n) ==
    IF ~d.loaded THEN Left(Raise("ValueError", "No data loaded"), d)
    ELSE bar_chart(d, suitable(d), x_column, y_column, top_n)

----------------------------------------------------------------------------
(* ChartGenerator.generate_line_chart                                      *)

\* lines 536-540: the columns of object dtype (the model has no datetime column)
date_cols(d) ==
    Filter2(columns(d), [i \in 1..Len(d.cols) |-> d.cols[i].dtype = "obj"])

\* lines 562-575, of the order the sort gave or of what the sort raised
line_build(d, x_column, y_column, sorted) ==
    IF sorted.raised THEN sorted
    ELSE name_value_config(y_column \o " over " \o x_column,
                           name_value_points(rows_of(d, x_column, y_column, sorted.val)))

\* the line chart cut to the first 20 rows, as the bars are
line_sort_and_build_cut(d, x_column, y_column) ==
    line_build(d, x_column, y_column,
               IF sort_values(d, x_column, TRUE).raised THEN sort_values(d, x_column, TRUE)
               ELSE Return(head(sort_values(d, x_column, TRUE).val, 20)))

\* lines 562-575
line_sort_and_build(d, x_column, y_column) ==
    line_build(d, x_column, y_column, sort_values(d, x_column, TRUE))

\* lines 552-575, with the columns named or detected
line_detected(d, x1, y1) ==
    IF ~x1.some \/ ~y1.some
    THEN Left(Raise("ValueError",
                    "Cannot create line chart: need at least one numeric column"), d)
    ELSE IF ~InColumns(d, x1) \/ ~InColumns(d, y1)
    THEN Left(Raise("ValueError", "Columns not found in data"), d)
    ELSE Left(line_sort_and_build(d, x1.v, y1.v), d)

\* line 543: the x column when the caller names none and there is a column
line_auto_x(d, s) ==
    IF date_cols(d) # <<>> THEN Some(date_cols(d)[1])
    ELSE IF s.numeric # <<>> THEN Some(s.numeric[1])
    ELSE Some(columns(d)[1])

\* lines 545-550: the y column when the caller names none
line_auto_y(d, s, x1) ==
    IF s.numeric # <<>>
    THEN IF Some(s.numeric[1]) = x1 /\ Len(s.numeric) > 1
         THEN Some(s.numeric[2]) ELSE Some(s.numeric[1])
    ELSE IF Len(d.cols) > 1 THEN Some(columns(d)[2])
    ELSE None

\* lines 544-550, with the x column named or detected
line_labelled(d, s, x1, y_column) ==
    line_detected(d, x1, IF y_column.some THEN y_column ELSE line_auto_y(d, s, x1))

\* lines 533-543: with no column at all, self.df.columns[0] raises
line_chart(d, s, x_column, y_column) ==
    IF ~x_column.some /\ Len(d.cols) = 0
    THEN Left(Raise("IndexError", "index 0 is out of bounds for axis 0 with size 0"), d)
    ELSE line_labelled(d, s,
                       IF x_column.some THEN x_column ELSE line_auto_x(d, s),
                       y_column)

\* lines 515-575
generate_line_chart(d, x_column, y_column) ==
    IF ~d.loaded THEN Left(Raise("ValueError", "No data loaded"), d)
    ELSE line_chart(d, suitable(d), x_column, y_column)

----------------------------------------------------------------------------
(* ChartGenerator.generate_scatter_chart                                   *)

\* the points of the value lists xs and ys; the first float() that fails raises
points_of(xs, ys) ==
    IF \E r \in 1..Len(xs) : float(xs[r]).raised \/ float(ys[r]).raised
    THEN Raise("ValueError", "could not convert string to float")
    ELSE Return([r \in 1..Len(xs) |-> [x |-> float(xs[r]).val, y |-> float(ys[r]).val]])

\* the points with the two columns taken the other way round
xy_points_swapped(d, x_column, y_column) ==
    points_of(Col(d, y_column).vals, Col(d, x_column).vals)

\* lines 612-615: [{"x": float(..), "y": float(..)} for every row]
xy_points(d, x_column, y_column) ==
    points_of(Col(d, x_column).vals, Col(d, y_column).vals)

\* lines 617-625: the configuration
scatter_config(d, x_column, y_column, data) ==
    IF data.raised THEN Left(data, d)
    ELSE Left(Return([data |-> data.val,
                      title |-> y_column \o " vs " \o x_column,
                      xKey |-> "x",
                      yKey |-> "y",
                      xLabel |-> x_column,
                      yLabel |-> y_column,
                      name |-> y_column \o " vs " \o x_column]), d)

\* lines 609-625, with the columns named or detected
scatter_detected(d, x_column, y_column) ==
    IF ~InColumns(d, Some(x_column)) \/ ~InColumns(d, Some(y_column))
    THEN Left(Raise("ValueError", "Columns not found in data"), d)
    ELSE scatter_config(d, x_column, y_column, xy_points(d, x_column, y_column))

\* lines 597-607
scatter_chart(d, s, x_column, y_column) ==
    IF Len(s.numeric) < 2
    THEN Left(Raise("ValueError", "Scatter chart requires at least 2 numeric columns"), d)
    ELSE scatter_detected(d,
                          IF x_column.some THEN x_column.v ELSE s.numeric[1],
                          IF y_column.some THEN y_column.v
                          ELSE IF Len(s.numeric) > 1 THEN s.numeric[2] ELSE s.numeric[1])

\* lines 577-625
generate_scatter_chart(d, x_column, y_column) ==
    IF ~d.loaded THEN Left(Raise("ValueError", "No data loaded"), d)
    ELSE scatter_chart(d, suitable(d), x_column, y_column)

----------------------------------------------------------------------------
(* ChartGenerator._generate_fallback_chart and auto_generate_chart         *)

\* Series.sum() of a numeric column: the sum of the values that are not missing
RECURSIVE sum(_)
sum(vals) ==
    IF vals = <<>> THEN 0
    ELSE (IF Head(vals).k = "num" THEN Head(vals).v ELSE 0) + sum(Tail(vals))

\* lines 694-698: the sample is not empty, more than 90% of it converts, and
\* the sum of what converts is positive
converts_positive(sample) ==
    /\ Len(sample) > 0
    /\ 10 * notna_sum(to_numeric(sample)) > 9 * Len(sample)
    /\ sum(to_numeric(sample)) > 0

\* lines 685-702: the first column of numeric dtype with a positive sum, else
\* the first column of which more than 90% of the first 20 values convert, with
\* a positive sum
fallback_numeric_col(d) ==
    LET byDtype == {i \in 1..Len(d.cols) :
                       d.cols[i].dtype = "num" /\ sum(dropna(d.cols[i].vals)) > 0}
        byValue == {i \in 1..Len(d.cols) : converts_positive(head(dropna(d.cols[i].vals), 20))}
    IN  IF byDtype # {} THEN Some(d.cols[Min(byDtype)].name)
        ELSE IF byValue # {} THEN Some(d.cols[Min(byValue)].name)
        ELSE None

\* lines 705-710
fallback_cat_col(d, numeric_col) ==
    LET notNumeric == {i \in 1..Len(d.cols) :
                          Some(d.cols[i].name) # numeric_col /\ d.cols[i].dtype # "num"}
    IN  IF notNumeric # {} THEN Some(d.cols[Min(notNumeric)].name)
        ELSE IF Len(d.cols) > 1
             THEN IF Some(d.cols[1].name) # numeric_col
                  THEN Some(d.cols[1].name) ELSE Some(d.cols[2].name)
        ELSE None

\* lines 737, 752, 755: one point per row, ten at most
row_points(d) ==
    [i \in 1..(IF d.nrows < 10 THEN d.nrows ELSE 10) |->
        [name |-> "Row " \o ToString(i - 1), value |-> Num(1)]]

\* the distinct values of a column that are not missing, in their order of
\* first appearance
RECURSIVE FirstSeen(_, _)
FirstSeen(vals, seen) ==
    IF vals = <<>> THEN <<>>
    ELSE IF Head(vals).k = "nan" \/ Head(vals) \in seen
         THEN FirstSeen(Tail(vals), seen)
         ELSE <<Head(vals)>> \o FirstSeen(Tail(vals), seen \cup {Head(vals)})

\* the keys with their counts, the largest count first
counted_keys(keys, counts, n) ==
    head_rows(keys, counts, SortIdx(counts, 1..Len(keys), FALSE), n)

\* Series.value_counts().head(n): <<value, count>>, the largest count first
value_counts_head(vals, n) ==
    counted_keys(FirstSeen(vals, {}),
                 [g \in 1..Len(FirstSeen(vals, {})) |->
                     Num(Cardinality({i \in 1..Len(vals) : vals[i] = FirstSeen(vals, {})[g]}))],
                 n)

\* lines 720-724: the points of the groups, with their title
fallback_grouped_config(numeric_col, cat_col, data) ==
    IF data.raised THEN data
    ELSE Return([data |-> data.val, title |-> numeric_col \o " by " \o cat_col])

\* lines 717-724
fallback_grouped(numeric_col, cat_col, grouped) ==
    IF grouped.raised THEN grouped
    ELSE fallback_grouped_config(numeric_col, cat_col, name_value_points(grouped.val))

\* lines 728-732: one point per row of the ten largest values
fallback_top_points(numeric_col, vals, top) ==
    IF \E r \in 1..Len(top) : float(vals[top[r]]).raised
    THEN float(vals[top[Min({r \in 1..Len(top) : float(vals[top[r]]).raised})]])
    ELSE Return([data |-> [r \in 1..Len(top) |->
                              [name |-> "Row " \o ToString(top[r] - 1),
                               value |-> float(vals[top[r]]).val]],
                 title |-> "Top 10 values from " \o numeric_col])

\* lines 726-732
fallback_top(d, numeric_col, sorted) ==
    IF sorted.raised THEN sorted
    ELSE fallback_top_points(numeric_col, Col(d, numeric_col).vals, head(sorted.val, 10))

\* lines 716-732: the points of the fallback pie or bar from a numeric column
fallback_numeric_points(d, numeric_col, cat_col) ==
    IF cat_col.some
    THEN fallback_grouped(numeric_col, cat_col.v,
                          groupby_sum_sorted(d, cat_col.v, numeric_col, 10))
    ELSE fallback_top(d, numeric_col, sort_values(d, numeric_col, FALSE))

\* the configuration of the data found, without its valueKey
fallback_config_without_value_key(found) ==
    Return([data |-> found.data,
            title |-> found.title,
            xKey |-> "name",
            yKey |-> "value"])

\* lines 757-764: the configuration of the data found
fallback_config(found) ==
    Return([data |-> found.data,
            title |-> found.title,
            valueKey |-> "value",
            xKey |-> "name",
            yKey |-> "value"])

\* lines 737, 752, 755
overview(d) == [data |-> row_points(d), title |-> "Data Overview"]

\* lines 733-737: whatever the numeric attempt raises gives the overview
fallback_tried(d, tried) ==
    fallback_config(IF tried.raised THEN overview(d) ELSE tried.val)

\* lines 741-749: the counts of the first column
fallback_counts(d, counted) ==
    fallback_config([data |-> [r \in 1..Len(counted) |->
                                  [name |-> CellStr(counted[r][1]),
                                   value |-> counted[r][2]]],
                     title |-> "Count by " \o d.cols[1].name])

\* lines 712-764, with the numeric column found or not
fallback_with(d, numeric_col) ==
    IF numeric_col.some
    THEN fallback_tried(d, fallback_numeric_points(d, numeric_col.v,
                                                   fallback_cat_col(d, numeric_col)))
    ELSE IF Len(d.cols) > 0
    THEN fallback_counts(d, value_counts_head(d.cols[1].vals, 10))
    ELSE fallback_config(overview(d))

\* lines 712-764: the fallback pie or bar
fallback_pie_or_bar(d) == fallback_with(d, fallback_numeric_col(d))

\* a fallback that draws its pie or bar for whatever chart type it is given
_generate_fallback_chart_any_type(d, chart_type) ==
    IF ~d.loaded
    THEN Raise("AttributeError", "'NoneType' object has no attribute 'shape'")
    ELSE IF d.nrows = 0
    THEN Raise("ValueError", "No data available for chart")
    ELSE fallback_pie_or_bar(d)

\* lines 663-793
_generate_fallback_chart(d, chart_type) ==
    IF ~d.loaded
    THEN Raise("AttributeError", "'NoneType' object has no attribute 'shape'")
    ELSE IF d.nrows = 0
    THEN Raise("ValueError", "No data available for chart")
    ELSE IF chart_type \in {"pie", "bar"} THEN fallback_pie_or_bar(d)
    ELSE IF chart_type = "line"
    THEN Return([data |-> [i \in 1..(IF d.nrows < 20 THEN d.nrows ELSE 20) |->
                              [name |-> ToString(i - 1), value |-> Num(i - 1)]],
                 title |-> "Data Progression",
                 xKey |-> "name",
                 yKey |-> "value"])
    ELSE IF chart_type = "scatter"
    THEN Return([data |-> [i \in 1..(IF d.nrows < 50 THEN d.nrows ELSE 50) |->
                              [x |-> Num(i - 1), y |-> Num((i - 1) % 10)]],
                 title |-> "Data Distribution",
                 xKey |-> "x",
                 yKey |-> "y",
                 xLabel |-> "Row Index",
                 yLabel |-> "Value",
                 name |-> "Row vs Value"])
    ELSE Raise("ValueError", "Unsupported chart type")

\* lines 646-656: the generator of the chart type
primary_chart(d, chart_type, label_column, value_column) ==
    CASE chart_type = "pie" -> generate_pie_chart(d, label_column, value_column, 10)
      [] chart_type = "bar" -> generate_bar_chart(d, label_column, value_column, 20)
      [] chart_type = "line" -> generate_line_chart(d, label_column, value_column)
      [] chart_type = "scatter" -> generate_scatter_chart(d, label_column, value_column)
      [] OTHER -> Left(Raise("ValueError", "Unsupported chart type"), d)

\* the generator alone, with nothing caught
auto_generate_chart_uncaught(d, chart_type, label_column, value_column) ==
    primary_chart(d, Lower(chart_type), label_column, value_column)

\* lines 657-661: whatever the generator raised is caught, and the fallback
\* answers on the frame the generator left
caught(primary, chart_type) ==
    IF primary.out.raised
    THEN Left(_generate_fallback_chart(primary.df, chart_type), primary.df)
    ELSE primary

\* lines 627-661
auto_generate_chart(d, chart_type, label_column, value_column) ==
    caught(primary_chart(d, Lower(chart_type), label_column, value_column),
           Lower(chart_type))

----------------------------------------------------------------------------
(* The sheets pd.read_excel may return, within the bounds.  A column is a  *)
(* header and one of the cell patterns below, which cover the kinds of     *)
(* column the code tells apart: varied numbers, flags, constants, blanks,  *)
(* texts, numbers typed as text, and mixtures.  The headers of a sheet     *)
(* differ after trimming and lower-casing.                                 *)

Headers == {"Region ", "Total", "qty"}

Patterns == {"asc", "desc", "flag", "const", "blank", "hole",
             "text", "cat", "numtext", "mixed", "textnum", "texthole"}

\* the patterns of the sheets on which charts are drawn
ChartPatterns == {"asc", "flag", "blank", "hole", "text", "cat", "numtext", "mixed"}

CellOf(p, i) ==
    CASE p = "asc" -> Num(i)
      [] p = "desc" -> Num(1 - i)
      [] p = "flag" -> Num(i % 2)
      [] p = "const" -> Num(5)
      [] p = "blank" -> NaN
      [] p = "hole" -> IF i = 1 THEN NaN ELSE Num(i)
      [] p = "text" -> Txt(i)
      [] p = "cat" -> Txt(1 + (i % 2))
      [] p = "numtext" -> NumTxt(i)
      [] p = "mixed" -> IF i = 1 THEN Txt(1) ELSE Num(i)
      [] p = "textnum" -> IF i = 1 THEN Txt(1) ELSE NumTxt(i)
      [] p = "texthole" -> IF i = 2 THEN NaN ELSE Txt(i)

SheetColumn(h, p, n) ==
    LET vals == [i \in 1..n |-> CellOf(p, i)]
    IN  Column(h, read_excel_dtype(vals), vals)

\* the header rows of at most maxcols columns, no header twice
HeaderRows(maxcols) ==
    UNION {{hs \in [1..k -> Headers] : \A i, j \in 1..k : i # j => hs[i] # hs[j]} :
           k \in 0..maxcols}

\* the frame pd.read_excel returns for a sheet of n rows under the headers hs,
\* the cells of column i following the pattern ps[i]
Sheet(n, hs, ps) ==
    [nrows |-> n, cols |-> [i \in 1..Len(hs) |-> SheetColumn(hs[i], ps[i], n)]]

\* the column names a caller may pass: none, a name of the sheets, a name no
\* column matches
Hints == {None, Some("sales"), Some("zzz")}

\* the chart types a caller may pass
ChartTypes == {"pie", "bar", "line", "scatter", "Pie", "area"}

----------------------------------------------------------------------------
(* The generator and its caller.                                           *)

NoCall == [op |-> "none", chart_type |-> "", label_column |-> None, value_column |-> None]
NoRet == Return(<<>>)
Call(op, chart_type, label_column, value_column) ==
    [op |-> op, chart_type |-> chart_type,
     label_column |-> label_column, value_column |-> value_column]

\* models.py: the tables chat_sessions, messages, visualizations and
\* uploaded_files, each a list of rows in the order of their ids, with the last
\* id each table gave; and the files of the upload directory
NoTables ==
    [chat_sessions |-> <<>>, messages |-> <<>>, visualizations |-> <<>>,
     uploaded_files |-> <<>>, disk |-> <<>>,
     last_id |-> [chat_sessions |-> 0, messages |-> 0, visualizations |-> 0,
                  uploaded_files |-> 0]]

\* __init__, line 27: self.df = None
Init ==
    /\ pc = "idle"
    /\ df = NoFrame
    /\ df0 = NoFrame
    /\ call = NoCall
    /\ ret = NoRet
    /\ db = NoTables

\* __init__, line 28: _load_data reads the sheet
LoadData(sheet) ==
    /\ pc' = "done"
    /\ df' = _load_data(sheet)
    /\ df0' = df'
    /\ call' = Call("_load_data", "", None, None)
    /\ ret' = Return(<<>>)
    /\ UNCHANGED db

\* the generator is built on some sheet of the patterns given; a sheet
\* without columns has no rows
LoadSheet(patterns, maxcols) ==
    /\ pc = "idle"
    /\ ~df.loaded
    /\ \E hs \in HeaderRows(maxcols) :
          \E n \in 0..(IF hs = <<>> THEN 0 ELSE MaxRows), ps \in [1..Len(hs) -> patterns] :
              LoadData(Sheet(n, hs, ps))

\* lines 122-125: pd.read_excel fails, self.df stays None
LoadDataFails ==
    /\ pc = "idle"
    /\ ~df.loaded
    /\ pc' = "done"
    /\ call' = Call("_load_data", "", None, None)
    /\ ret' = Raise("ValueError", "Failed to load Excel file")
    /\ UNCHANGED <<df, df0, db>>

\* a call that leaves `left`
Ends(c, left) ==
    /\ pc = "idle"
    /\ pc' = "done"
    /\ call' = c
    /\ ret' = left.out
    /\ df' = left.df
    /\ UNCHANGED <<df0, db>>

FindSuitableColumns ==
    Ends(Call("find_suitable_columns", "", None, None),
         Left(find_suitable_columns(df), df))

GetColumnInfo ==
    Ends(Call("get_column_info", "", None, None), Left(get_column_info(df), df))

GetDataSummary ==
    Ends(Call("get_data_summary", "", None, None), Left(get_data_summary(df), df))

GeneratePieChart(l, v) ==
    Ends(Call("generate_pie_chart", "", l, v), generate_pie_chart(df, l, v, 10))

GenerateBarChart(l, v) ==
    Ends(Call("generate_bar_chart", "", l, v), generate_bar_chart(df, l, v, 20))

GenerateLineChart(l, v) ==
    Ends(Call("generate_line_chart", "", l, v), generate_line_chart(df, l, v))

GenerateScatterChart(l, v) ==
    Ends(Call("generate_scatter_chart", "", l, v), generate_scatter_chart(df, l, v))

AutoGenerateChart(t, l, v) ==
    Ends(Call("auto_generate_chart", t, l, v), auto_generate_chart(df, t, l, v))

\* the caller takes the outcome
Finish ==
    /\ pc = "done"
    /\ pc' = "idle"
    /\ call' = NoCall
    /\ ret' = NoRet
    /\ UNCHANGED <<df, df0, db>>

Next ==
    \/ LoadSheet(ChartPatterns, MaxCols)
    \/ LoadDataFails
    \/ FindSuitableColumns
    \/ \E l \in Hints, v \in Hints :
          \/ GeneratePieChart(l, v)
          \/ GenerateBarChart(l, v)
          \/ GenerateLineChart(l, v)
          \/ GenerateScatterChart(l, v)
          \/ \E t \in ChartTypes : AutoGenerateChart(t, l, v)
    \/ Finish

Spec == Init /\ [][Next]_vars

----------------------------------------------------------------------------
(* The scatter generator on its own, on sheets of up to MaxScatterCols     *)
(* columns, with hints that name a column, need the matcher, or match      *)
(* nothing.                                                                *)

ScatterPatterns == {"asc", "desc", "flag", "text"}

ScatterHints == Hints \cup {Some("qty")}

NextScatter ==
    \/ LoadSheet(ScatterPatterns, MaxScatterCols)
    \/ \E x \in ScatterHints, y \in ScatterHints : GenerateScatterChart(x, y)
    \/ Finish

SpecScatter == Init /\ [][NextScatter]_vars

----------------------------------------------------------------------------
(* The classification and the two reports of the columns on their own, on  *)
(* the sheets of every pattern.                                            *)

NextClassify ==
    \/ LoadSheet(Patterns, MaxCols)
    \/ FindSuitableColumns
    \/ GetColumnInfo
    \/ GetDataSummary
    \/ Finish

SpecClassify == Init /\ [][NextClassify]_vars

----------------------------------------------------------------------------
(* The column matcher on its own: targets are the words a request names    *)
(* (parse_chart_request splits the message on white space, lines 857-866), *)
(* candidates are lists of column names.                                   *)

Targets == {"sales", "SALES", "region", "regions", "total", "price", "zzz"}

CandidateNames == {"region", "total_sales_usd", "sales rep", "total", "grand total", "Sales"}

\* the lists of at most MaxCands distinct column names
CandidateLists ==
    UNION {{cs \in [1..k -> CandidateNames] : \A i, j \in 1..k : i # j => cs[i] # cs[j]} :
           k \in 0..MaxCands}

FindBestColumnMatch(target, candidate_columns) ==
    /\ pc = "idle"
    /\ pc' = "done"
    /\ call' = [op |-> "_find_best_column_match", target |-> target,
                candidate_columns |-> candidate_columns]
    /\ ret' = _find_best_column_match(Some(target), candidate_columns)
    /\ UNCHANGED <<df, df0, db>>

NextMatch ==
    \/ \E target \in Targets, cs \in CandidateLists : FindBestColumnMatch(target, cs)
    \/ Finish

SpecMatch == Init /\ [][NextMatch]_vars

----------------------------------------------------------------------------
(* C9, C10: the matcher's cascade.                                         *)

MatcherDone == pc = "done" /\ call.op = "_find_best_column_match"

\* the candidates equal to the target when case is ignored
EqualIgnoringCase(target, cs) == {i \in 1..Len(cs) : Lower(cs[i]) = Lower(target)}

\* the candidates that hold the target or that the target holds, case ignored
HoldsOrHeld(target, cs) ==
    {i \in 1..Len(cs) : \/ Contains(Lower(target), Lower(cs[i]))
                        \/ Contains(Lower(cs[i]), Lower(target))}

C10_NotSalesRep ==
    (MatcherDone /\ call.target = "sales" /\ call.candidate_columns = <<"sales rep", "total">>)
        => ret.val # Some("sales rep")

----------------------------------------------------------------------------
(* C1, C2, C3: auto_generate_chart and its fallback.                       *)

AutoDone == pc = "done" /\ call.op = "auto_generate_chart"

Supported(chart_type) == Lower(chart_type) \in {"pie", "bar", "line", "scatter"}

Unsupported == Raise("ValueError", "Unsupported chart type")

----------------------------------------------------------------------------
(* C4: the scatter generator.                                              *)

ScatterDone == pc = "done" /\ call.op = "generate_scatter_chart" /\ df.loaded

\* C4: on a dataset whose classification yields fewer than two numeric
\* columns generate_scatter_chart fails with the error that at least 2 numeric
\* columns are required, whatever the hints; with two or more numeric columns
\* and no hints it emits one {x, y} point per row from the first two numeric
\* columns, which xLabel and yLabel name.
C4_Scatter ==
    ScatterDone =>
        LET numeric == suitable(df).numeric
        IN  /\ Len(numeric) < 2 =>
                  ret = Raise("ValueError", "Scatter chart requires at least 2 numeric columns")
            /\ (Len(numeric) >= 2 /\ ~call.label_column.some /\ ~call.value_column.some) =>
                  /\ ~ret.raised
                  /\ Len(ret.val.data) = df.nrows
                  /\ \A r \in 1..df.nrows :
                        ret.val.data[r] = [x |-> Col(df, numeric[1]).vals[r],
                                           y |-> Col(df, numeric[2]).vals[r]]
                  /\ ret.val.xLabel = numeric[1]
                  /\ ret.val.yLabel = numeric[2]

\* C4 witness: three columns, the first of them text, and the points come
\* from the second and the third
C4_Witness ==
    /\ ScatterDone
    /\ ~call.label_column.some
    /\ ~call.value_column.some
    /\ Len(df.cols) = 3
    /\ df.cols[1].dtype = "obj"
    /\ ~ret.raised
    /\ Len(ret.val.data) = MaxRows
    /\ ret.val.xLabel = df.cols[2].name
    /\ ret.val.yLabel = df.cols[3].name

----------------------------------------------------------------------------
(* C5, C7: the pie and bar generators called directly.                     *)

\* C5: when generate_pie_chart or generate_bar_chart, called directly, cannot
\* determine a label or a value column, as on a dataset with a single
\* categorical column and no hints, it fails with the descriptive ValueError
\* that names the available, numeric and categorical columns, and with no
\* other kind of exception.
C5_DescriptiveError ==
    (/\ pc = "done"
     /\ call.op \in {"generate_pie_chart", "generate_bar_chart"}
     /\ ~call.label_column.some
     /\ ~call.value_column.some
     /\ df.loaded
     /\ df.nrows > 0
     /\ Len(df.cols) = 1
     /\ suitable(df).numeric = <<>>)
        => /\ ret.raised
           /\ ret.exc = "ValueError"
           /\ ret.msg \in {"Cannot create pie chart: need at least one numeric column",
                           "Cannot create bar chart: need at least one numeric column"}

\* C7: no call of a generator changes the loaded dataset: after any sequence
\* of calls a dataset with rows is the dataset that was loaded.
C7_DatasetUnchanged == (df.loaded /\ df.nrows > 0) => df = df0

----------------------------------------------------------------------------
(* C6, C8: the classification.                                             *)

Elems(xs) == {xs[i] : i \in 1..Len(xs)}

ClassifyDone == pc = "done" /\ call.op = "find_suitable_columns" /\ df.loaded

\* the distinct values of a column that are not missing
DistinctValues(c) == {c.vals[i].v : i \in {j \in 1..Len(c.vals) : c.vals[j].k # "nan"}}

\* C6: for any loaded dataset find_suitable_columns puts every column in
\* exactly one of the lists 'numeric' and 'categorical': the lists are
\* disjoint and their union is the set of all columns of the dataset.
C6_ExactlyOneList ==
    ClassifyDone =>
        /\ ~ret.raised
        /\ Elems(ret.val.numeric) \cap Elems(ret.val.categorical) = {}
        /\ Elems(ret.val.numeric) \cup Elems(ret.val.categorical)
               = {df.cols[i].name : i \in 1..Len(df.cols)}
        /\ Len(ret.val.numeric) + Len(ret.val.categorical) = Len(df.cols)

\* C6 witness: a dataset with a column in each list
C6_Witness ==
    /\ ClassifyDone
    /\ Len(ret.val.numeric) = 1
    /\ Len(ret.val.categorical) = 1

\* C8: a column of numeric dtype whose values that are not missing have at
\* most 2 distinct values, or are all the same (max - min = 0), is classified
\* categorical and never numeric; a column is classified numeric only if it is
\* of numeric dtype, has more than 2 distinct values and a positive range.
C8_LowVariationIsCategorical ==
    ClassifyDone =>
        \A i \in 1..Len(df.cols) :
            LET c == df.cols[i]
                vs == DistinctValues(c)
                varied == /\ Cardinality(vs) > 2
                          /\ \E x, y \in vs : x - y > 0
            IN  /\ (c.dtype = "num" /\ ~varied) =>
                       /\ InList(c.name, ret.val.categorical)
                       /\ ~InList(c.name, ret.val.numeric)
                /\ InList(c.name, ret.val.numeric) => (c.dtype = "num" /\ varied)

\* C8 witness: a 0/1 column is classified categorical beside a column that is
\* classified numeric
C8_Witness ==
    /\ ClassifyDone
    /\ \E i, j \in 1..Len(df.cols) :
          /\ df.cols[i].dtype = "num"
          /\ DistinctValues(df.cols[i]) = {0, 1}
          /\ InList(df.cols[i].name, ret.val.categorical)
          /\ InList(df.cols[j].name, ret.val.numeric)

----------------------------------------------------------------------------
(* C11: hints that resolve to no column.                                   *)

GeneratorOps == {"generate_pie_chart", "generate_bar_chart",
                 "generate_line_chart", "generate_scatter_chart"}

GeneratorDone == pc = "done" /\ call.op \in GeneratorOps /\ df.loaded

\* what the generator `op` leaves on the frame d with the hints l and v
GeneratorOut(op, d, l, v) ==
    CASE op = "generate_pie_chart" -> generate_pie_chart(d, l, v, 10)
      [] op = "generate_bar_chart" -> generate_bar_chart(d, l, v, 20)
      [] op = "generate_line_chart" -> generate_line_chart(d, l, v)
      [] op = "generate_scatter_chart" -> generate_scatter_chart(d, l, v)

\* a hint that names no column of the frame and that the matcher resolves to none
Unresolvable(d, hint) ==
    /\ hint.some
    /\ ~InColumns(d, hint)
    /\ ~BestColumnMatch(hint.v, columns(d)).some

\* the hint a caller passes who leaves an unresolvable hint out
Resolvable(d, hint) == IF Unresolvable(d, hint) THEN None ELSE hint

\* C11: for each of the four chart types a supplied label or value hint that
\* resolves to no real column is not an error: on a dataset that has a
\* categorical and a numeric column, whenever the generator draws the chart
\* without the unresolvable hint it draws a chart with it, and raises no
\* exception because of the hint.
C11_UnresolvableHintIsNoError ==
    (/\ GeneratorDone
     /\ df = df0
     /\ suitable(df).categorical # <<>>
     /\ suitable(df).numeric # <<>>
     /\ Unresolvable(df, call.label_column) \/ Unresolvable(df, call.value_column)
     /\ ~GeneratorOut(call.op, df, Resolvable(df, call.label_column),
                      Resolvable(df, call.value_column)).out.raised)
        => ~ret.raised

----------------------------------------------------------------------------
(* C12: the columns the generators select when the caller names none.      *)

AutoOps == {"generate_pie_chart", "generate_bar_chart", "generate_line_chart"}

\* the label (x) column the generator `op` selects on the frame d
AutoLabel(op, d) ==
    CASE op = "generate_pie_chart" -> pie_auto_label(d, suitable(d))
      [] op = "generate_bar_chart" -> bar_auto_x(d, suitable(d))
      [] op = "generate_line_chart" -> line_auto_x(d, suitable(d))

\* the value (y) column the generator `op` selects beside the label column
AutoValue(op, d, label_column) ==
    CASE op = "generate_pie_chart" -> pie_auto_value(d, suitable(d), label_column)
      [] op = "generate_bar_chart" -> bar_auto_y(d, suitable(d), label_column)
      [] op = "generate_line_chart" -> line_auto_y(d, suitable(d), label_column)

\* a call of one of the three generators with no hints, on a dataset with two
\* numeric columns at least, so that a second column can carry the values
UnhintedOnTwoNumeric ==
    /\ GeneratorDone
    /\ call.op \in AutoOps
    /\ ~call.label_column.some
    /\ ~call.value_column.some
    /\ df = df0
    /\ Len(suitable(df).numeric) >= 2

\* C12: when no hints are supplied, the label (x) column and the value (y)
\* column auto-selected by generate_pie_chart, generate_bar_chart and
\* generate_line_chart are different columns whenever the dataset has an
\* alternative column of the needed kind, as with two numeric columns and no
\* categorical column.
C12_DistinctAutoColumns ==
    UnhintedOnTwoNumeric =>
        AutoValue(call.op, df, AutoLabel(call.op, df)) # AutoLabel(call.op, df)

----------------------------------------------------------------------------
(* C13, C14: the points of pie and bar charts.                             *)

\* the chart kind a finished call drew: "pie", "bar" or ""
KindDrawn ==
    CASE call.op = "generate_pie_chart" -> "pie"
      [] call.op = "generate_bar_chart" -> "bar"
      [] call.op = "auto_generate_chart" /\ Lower(call.chart_type) \in {"pie", "bar"} ->
             Lower(call.chart_type)
      [] OTHER -> ""

\* top_n of the chart kind
Cap(kind) == IF kind = "pie" THEN 10 ELSE 20

\* the generator of the chart kind
OpOf(kind) == IF kind = "pie" THEN "generate_pie_chart" ELSE "generate_bar_chart"

\* a pie or a bar chart was returned for a call on the dataset as loaded
PieOrBarReturned ==
    /\ pc = "done"
    /\ df.loaded
    /\ df = df0
    /\ KindDrawn # ""
    /\ ~ret.raised

\* ... by the generator itself, which selected both columns
PieOrBarAutoSelected ==
    /\ PieOrBarReturned
    /\ ~call.label_column.some
    /\ ~call.value_column.some
    /\ ~GeneratorOut(OpOf(KindDrawn), df, None, None).out.raised

\* the distinct values of a column that are not missing
Groups(d, name) == {c \in {Col(d, name).vals[i] : i \in 1..d.nrows} : c.k # "nan"}

\* C13: for pie and bar charts returned by generate_pie_chart,
\* generate_bar_chart or auto_generate_chart (fallback included) the number of
\* data points never exceeds the cap of the chart type (10 for pie, 20 for
\* bar), and when the label column has fewer distinct groups than the cap the
\* number of points equals the number of groups.
C13_PointsWithinCap ==
    /\ PieOrBarReturned => Len(ret.val.data) <= Cap(KindDrawn)
    /\ PieOrBarAutoSelected =>
          LET groups == Groups(df, AutoLabel(OpOf(KindDrawn), df).v)
          IN  Cardinality(groups) < Cap(KindDrawn) =>
                  Len(ret.val.data) = Cardinality(groups)

\* the sum of the numbers of the value column over the rows whose label cell
\* is written as `name`
RECURSIVE SumWhere(_, _, _, _)
SumWhere(labels, values, name, r) ==
    IF r > Len(labels) THEN 0
    ELSE (IF CellStr(labels[r]) = name /\ values[r].k = "num" THEN values[r].v ELSE 0)
         + SumWhere(labels, values, name, r + 1)

\* C14: pie and bar generation group the rows by the label column: each
\* distinct label value is the name of at most one point, and the value of
\* that point is the sum of the value column over all rows having that label,
\* for every label column the generator may use, a label column stored with a
\* numeric type included.
C14_GroupedByLabel ==
    (PieOrBarAutoSelected /\ call.op # "auto_generate_chart") =>
        LET label == AutoLabel(call.op, df).v
            value == AutoValue(call.op, df, AutoLabel(call.op, df)).v
            data == ret.val.data
        IN  /\ \A p, q \in 1..Len(data) : data[p].name = data[q].name => p = q
            /\ is_numeric_dtype(df, value) =>
                  \A p \in 1..Len(data) :
                      data[p].value = Num(SumWhere(Col(df, label).vals,
                                                   Col(df, value).vals, data[p].name, 1))

----------------------------------------------------------------------------
(* C15: the fallback on a dataset without numeric columns.                 *)

\* auto_generate_chart answered a pie request through the fallback, on a
\* dataset whose classification yields no numeric column
FallbackPieWithoutNumeric ==
    /\ AutoDone
    /\ df.loaded
    /\ df = df0
    /\ Lower(call.chart_type) = "pie"
    /\ suitable(df).numeric = <<>>
    /\ generate_pie_chart(df, call.label_column, call.value_column, 10).out.raised

\* C15: for every dataset that has no numeric columns the fallback generator
\* invoked for a 'pie' request returns a chart configuration whose data is
\* non-empty and never raises, including when the dataset has zero rows or
\* when its first column holds only null values.
C15_FallbackPieNonEmpty ==
    FallbackPieWithoutNumeric => (~ret.raised /\ ret.val.data # <<>>)

----------------------------------------------------------------------------
(* parse_chart_request                                                     *)

\* lines 829-834: chart_keywords, in the order of the dict
chart_keywords ==
    << [ct |-> "pie", keywords |-> <<"pie chart", "piechart", "pie", "donut", "doughnut">>],
       [ct |-> "bar", keywords |-> <<"bar chart", "barchart", "bar", "column", "histogram">>],
       [ct |-> "line", keywords |-> <<"line chart", "linechart", "line", "graph", "trend">>],
       [ct |-> "scatter",
        keywords |-> <<"scatter", "scatter plot", "scatterplot", "scatter chart">>] >>

\* the types of chart_keywords one of whose keywords is in the message
types_named(message_lower) ==
    {i \in 1..Len(chart_keywords) :
        \E k \in 1..Len(chart_keywords[i].keywords) :
            Contains(chart_keywords[i].keywords[k], message_lower)}

\* the type the loop leaves when it keeps running after a hit
detect_chart_type_last_wins(message_lower) ==
    IF types_named(message_lower) # {}
    THEN Some(chart_keywords[Max(types_named(message_lower))].ct)
    ELSE IF \E kw \in {"chart", "graph", "visualiz", "plot", "diagram"} :
                Contains(kw, message_lower)
    THEN Some("bar")
    ELSE None

\* lines 828-846: the first type with a keyword in the message, else bar for a
\* generic word, else None
detect_chart_type(message_lower) ==
    IF types_named(message_lower) # {}
    THEN Some(chart_keywords[Min(types_named(message_lower))].ct)
    ELSE IF \E kw \in {"chart", "graph", "visualiz", "plot", "diagram"} :
                Contains(kw, message_lower)
    THEN Some("bar")
    ELSE None

\* the positions of s at which sep stands
Occurrences(sep, s) ==
    {i \in 1..(Len(s) - Len(sep) + 1) : SubSeq(s, i, i + Len(sep) - 1) = sep}

\* s.split(sep): the pieces between the occurrences of sep, from the left
RECURSIVE split_on(_, _)
split_on(s, sep) ==
    IF Occurrences(sep, s) = {} THEN <<s>>
    ELSE <<SubSeq(s, 1, Min(Occurrences(sep, s)) - 1)>>
         \o split_on(SubSeq(s, Min(Occurrences(sep, s)) + Len(sep), Len(s)), sep)

\* s.split(): the words of s, separated by any number of blanks
RECURSIVE split(_)
split(s) ==
    IF s = "" THEN <<>>
    ELSE IF Head(s) = " " THEN split(Tail(s))
    ELSE IF Occurrences(" ", s) = {} THEN <<s>>
    ELSE <<SubSeq(s, 1, Min(Occurrences(" ", s)) - 1)>>
         \o split(SubSeq(s, Min(Occurrences(" ", s)) + 1, Len(s)))

\* lines 870-874
common_words ==
    {"a", "the", "show", "create", "make", "chart", "pie", "bar", "line", "of", "for",
     "scatter", "graph", "plot", "visual", "visualize", "visualization", "display",
     "see", "view", "generate", "give", "want", "need", "help", "me"}

\* the value hint taken from the last word only
value_hint_last_only(words_before) ==
    IF words_before # <<>> /\ words_before[Len(words_before)] \notin common_words
    THEN Some(Lower(words_before[Len(words_before)]))
    ELSE None

\* lines 862 and 877-883: the last word before "by", or the one before it
value_hint(words_before) ==
    IF words_before # <<>> /\ words_before[Len(words_before)] \notin common_words
    THEN Some(Lower(words_before[Len(words_before)]))
    ELSE IF Len(words_before) >= 2
            /\ words_before[Len(words_before) - 1] \notin common_words
    THEN Some(Lower(words_before[Len(words_before) - 1]))
    ELSE None

\* lines 867 and 887-888: the first word after "by"
label_hint(words_after) ==
    IF words_after # <<>> /\ words_after[1] \notin common_words
    THEN Some(Lower(words_after[1]))
    ELSE None

\* the dict returned: a key that is not set holds None
ChartRequest(chart_type, label_column, value_column) ==
    [chart_type |-> chart_type, label_column |-> label_column, value_column |-> value_column]

\* lines 857-888, on the parts message_lower.split(" by ") gives
request_with_hints(chart_type, parts) ==
    ChartRequest(chart_type, label_hint(split(Strip(parts[2]))),
                 value_hint(split(Strip(parts[1]))))

\* lines 848-891, with the chart type detected
request_of_type(message_lower, chart_type) ==
    IF ~chart_type.some THEN None
    ELSE IF Contains(" by ", message_lower)
    THEN Some(request_with_hints(chart_type.v, split_on(message_lower, " by ")))
    ELSE Some(ChartRequest(chart_type.v, None, None))

\* lines 814-891
parse_chart_request(user_message) ==
    request_of_type(Lower(user_message), detect_chart_type(Lower(user_message)))

----------------------------------------------------------------------------
(* The parser on its own, on chat messages: the messages of the test       *)
(* script and of the documentation, and every message of at most MaxWords  *)
(* words of a small vocabulary, single blanks between them.                *)

MessageWords == {"pie", "Bar", "trend", "scatter", "the", "sales", "by"}

ExampleMessages ==
    {"create a pie chart showing sales by region",
     "hello, how are you",
     "show me a bar chart",
     "Show Total by Region in a Donut",
     "plot the sales by  by region",
     "barcelona revenue by the year"}

\* " ".join(words)
RECURSIVE Join(_)
Join(words) ==
    IF words = <<>> THEN ""
    ELSE IF Len(words) = 1 THEN words[1]
    ELSE words[1] \o " " \o Join(Tail(words))

ParseChartRequest(user_message) ==
    /\ pc = "idle"
    /\ pc' = "done"
    /\ call' = [op |-> "parse_chart_request", user_message |-> user_message]
    /\ ret' = Return(parse_chart_request(user_message))
    /\ UNCHANGED <<df, df0, db>>

NextParse ==
    \/ \E n \in 0..MaxWords : \E words \in [1..n -> MessageWords] :
          ParseChartRequest(Join(words))
    \/ \E user_message \in ExampleMessages : ParseChartRequest(user_message)
    \/ Finish

SpecParse == Init /\ [][NextParse]_vars

----------------------------------------------------------------------------
(* C16, C17: the parser.                                                   *)

ParseDone == pc = "done" /\ call.op = "parse_chart_request"

\* one of the keywords of the type occurs in the message
NamesType(ct, message_lower) ==
    \E i \in 1..Len(chart_keywords) :
        /\ chart_keywords[i].ct = ct
        /\ \E k \in 1..Len(chart_keywords[i].keywords) :
              Contains(chart_keywords[i].keywords[k], message_lower)

\* one of the generic words occurs in the message
NamesChart(message_lower) ==
    \E kw \in {"chart", "graph", "visualiz", "plot", "diagram"} : Contains(kw, message_lower)

LastOrSecondLast(words) ==
    IF words = <<>> THEN None
    ELSE IF words[Len(words)] \notin common_words THEN Some(words[Len(words)])
    ELSE IF Len(words) >= 2 /\ words[Len(words) - 1] \notin common_words
    THEN Some(words[Len(words) - 1])
    ELSE None

\* the hint a word list yields when its first word is taken unless it is a
\* stop word
FirstWord(words) ==
    IF words # <<>> /\ words[1] \notin common_words THEN Some(words[1]) ELSE None

\* the text before the first " by " of a message that holds one
BeforeBy(m) == SubSeq(m, 1, Min(Occurrences(" by ", m)) - 1)

\* the text after the first " by " of a message that holds one
AfterBy(m) == SubSeq(m, Min(Occurrences(" by ", m)) + 4, Len(m))

\* the text up to the first " by ", or all of it when there is none
UpToBy(m) == IF Occurrences(" by ", m) = {} THEN m ELSE BeforeBy(m)

\* a hint is lower-case and no stop word
ProperHint(hint) == hint.some => (hint.v = Lower(hint.v) /\ hint.v \notin common_words)

\* the request the parser returned holds these hints
ReturnedHints(label_column, value_column) ==
    /\ ret.val.v.label_column = label_column
    /\ ret.val.v.value_column = value_column
    /\ ProperHint(ret.val.v.label_column)
    /\ ProperHint(ret.val.v.value_column)

RequestDone == ParseDone /\ ~ret.raised /\ ret.val.some

\* what 'create a pie chart showing sales by region' yields
DocumentedExample ==
    (RequestDone /\ call.user_message = "create a pie chart showing sales by region")
        => ret.val.v = ChartRequest("pie", Some("region"), Some("sales"))

\* C17 as claimed: parse_chart_request extracts column hints only when the
\* lower-cased message contains ' by ': the value hint is the last word before
\* the first ' by ', or the second-to-last word when the last one is a stop
\* word, and is absent when that one is a stop word too or does not exist; the
\* label hint is the first word after the first ' by ' unless it is a stop
\* word; a returned hint is lower-case and never a stop word; the documented
\* example yields pie, sales, region, and a message without ' by ' yields a
\* result holding chart_type only.
C17_HintsAroundFirstBy ==
    /\ DocumentedExample
    /\ RequestDone =>
          LET m == Lower(call.user_message)
          IN  IF ~Contains(" by ", m) THEN ReturnedHints(None, None)
              ELSE ReturnedHints(FirstWord(split(AfterBy(m))),
                                 LastOrSecondLast(split(BeforeBy(m))))

\* C17 as amended: as claimed, but the label hint is the first word of the
\* text between the first ' by ' and the next ' by ' (or the end of the
\* message), unless it is a stop word, and is absent when that text holds no
\* word.
C17_HintsBetweenBys ==
    /\ DocumentedExample
    /\ RequestDone =>
          LET m == Lower(call.user_message)
          IN  IF ~Contains(" by ", m) THEN ReturnedHints(None, None)
              ELSE ReturnedHints(FirstWord(split(UpToBy(AfterBy(m)))),
                                 LastOrSecondLast(split(BeforeBy(m))))

\* C17 witness: the last word before ' by ' is a stop word and the word
\* before it is the value hint; the word after ' by ' is a stop word and no
\* label hint
C17_Witness ==
    /\ RequestDone
    /\ call.user_message = "sales the by pie"
    /\ ret.val.v = ChartRequest("pie", None, Some("sales"))

----------------------------------------------------------------------------
(* C18: the shape of a chart configuration.                                *)

\* a float or an int of Python: a number, or the float nan
IsNumber(c) == DOMAIN c = {"k", "v"} /\ c.k \in {"num", "nan"}

\* the points are records of exactly the two fields, the first of them a
\* string if it is the name
PointsHave(data, x, y) ==
    \A p \in 1..Len(data) :
        /\ DOMAIN data[p] = {x, y}
        /\ IF x = "name" THEN data[p][x] \in STRING ELSE IsNumber(data[p][x])
        /\ IsNumber(data[p][y])

\* C18: every chart configuration returned by auto_generate_chart, from the
\* primary generator or from the fallback, has the fields data, title, xKey
\* and yKey; for pie it also has valueKey; every point of a pie, bar or line
\* configuration has exactly a string 'name' and a numeric 'value', and every
\* point of a scatter configuration has exactly a numeric 'x' and a numeric
\* 'y', with xKey/yKey (and valueKey) naming those fields.
C18_ConfigurationShape ==
    (AutoDone /\ ~ret.raised) =>
        /\ {"data", "title", "xKey", "yKey"} \subseteq DOMAIN ret.val
        /\ ret.val.title \in STRING
        /\ Lower(call.chart_type) = "pie" =>
              ("valueKey" \in DOMAIN ret.val /\ ret.val.valueKey = "value")
        /\ Lower(call.chart_type) \in {"pie", "bar", "line"} =>
              /\ ret.val.xKey = "name"
              /\ ret.val.yKey = "value"
              /\ PointsHave(ret.val.data, "name", "value")
        /\ Lower(call.chart_type) = "scatter" =>
              /\ ret.val.xKey = "x"
              /\ ret.val.yKey = "y"
              /\ PointsHave(ret.val.data, "x", "y")

\* C18 witness: a pie configuration of the fallback, with points
C18_Witness ==
    /\ AutoDone
    /\ df.loaded
    /\ call.chart_type = "pie"
    /\ generate_pie_chart(df0, call.label_column, call.value_column, 10).out.raised
    /\ ~ret.raised
    /\ Len(ret.val.data) >= 2
    /\ ret.val.valueKey = "value"

----------------------------------------------------------------------------
(* The loading on its own, on sheets long enough for the sample of 20      *)
(* values to end before the column does.  The headers are those of a       *)
(* workbook, distinct as pd.read_excel leaves them; two of them differ in  *)
(* case and trailing blank only.  The first column of a sheet starts with  *)
(* blanks and has texts that are no numbers among texts that are, at its   *)
(* top or at its bottom; a second column is all of one kind.               *)

LoadHeaders == {"Sales", "sales ", "qty"}

LeadingBlanks == 0..2

Ends2 == {"top", "bottom"}

SidePatterns == {"numtext", "text", "asc"}

\* cell i of a column of n cells that starts with `blanks` blank cells and
\* has `bad` texts that are no numbers at the end named
LoadCell(i, n, blanks, bad, at) ==
    IF i <= blanks THEN NaN
    ELSE IF at = "top" /\ i <= blanks + bad THEN Txt(i)
    ELSE IF at = "bottom" /\ i > n - bad THEN Txt(i)
    ELSE NumTxt(i)

LoadColumn(h, n, blanks, bad, at) ==
    LET vals == [i \in 1..n |-> LoadCell(i, n, blanks, bad, at)]
    IN  Column(h, read_excel_dtype(vals), vals)

\* the header rows of one or two columns, no header twice
LoadHeaderRows ==
    UNION {{hs \in [1..k -> LoadHeaders] : \A i, j \in 1..k : i # j => hs[i] # hs[j]} :
           k \in 1..2}

LoadedSheet(n, hs, first, side) ==
    [nrows |-> n,
     cols |-> [i \in 1..Len(hs) |-> IF i = 1 THEN first ELSE SheetColumn(hs[i], side, n)]]

\* __init__, line 28: _load_data reads the workbook
LoadWorkbook ==
    /\ pc = "idle"
    /\ ~df.loaded
    /\ \E hs \in LoadHeaderRows, n \in 0..MaxLoadRows, side \in SidePatterns :
          \E blanks \in {b \in LeadingBlanks : b <= n} :
              \E bad \in 0..(n - blanks), at \in Ends2 :
                  /\ pc' = "done"
                  /\ df' = _load_data(LoadedSheet(n, hs, LoadColumn(hs[1], n, blanks, bad, at), side))
                  /\ df0' = df'
                  /\ call' = [op |-> "_load_data",
                              sheet |-> LoadedSheet(n, hs, LoadColumn(hs[1], n, blanks, bad, at), side)]
                  /\ ret' = Return(<<>>)
                  /\ UNCHANGED db

NextLoad ==
    \/ LoadWorkbook
    \/ LoadDataFails
    \/ Finish

SpecLoad == Init /\ [][NextLoad]_vars

----------------------------------------------------------------------------
(* C19, C20: the loaded columns.                                           *)

\* a workbook has been loaded
LoadDone == pc = "done" /\ call.op = "_load_data" /\ ~ret.raised

\* C19: after a dataset is loaded, its column names are pairwise distinct:
\* the load-time normalisation (trim and lower-case) never leaves two columns
\* with the same name, e.g. for a sheet whose headers are 'Sales' and
\* 'sales '.
C19_ColumnNamesDistinct ==
    LoadDone =>
        \A i, j \in 1..Len(df.cols) : i # j => df.cols[i].name # df.cols[j].name

\* the positions of the first (up to) 20 non-null values of a column
FirstNonNull(vals) ==
    {i \in 1..Len(vals) :
        /\ vals[i].k # "nan"
        /\ Cardinality({j \in 1..i : vals[j].k # "nan"}) <= 20}

\* the positions among them of which the value reads as a number
ReadsAsNumber(vals) == {i \in FirstNonNull(vals) : vals[i].k \in {"num", "numtxt"}}

\* strictly more than 80% of the first 20 non-null values convert
ConvertsMostly(vals) ==
    5 * Cardinality(ReadsAsNumber(vals)) > 4 * Cardinality(FirstNonNull(vals))

\* column i of the workbook was read as text and is numeric after the load,
\* its texts that are no numbers blanked
Converted(i) ==
    /\ call.sheet.cols[i].dtype = "obj"
    /\ df.cols[i].dtype = "num"
    /\ df.cols[i].vals = to_numeric(call.sheet.cols[i].vals)

\* column i of the workbook was read as text and is as it was read
StaysText(i) ==
    /\ call.sheet.cols[i].dtype = "obj"
    /\ df.cols[i].dtype = "obj"
    /\ df.cols[i].vals = call.sheet.cols[i].vals

\* C20: at load time a text-typed column is converted to numeric if and only
\* if strictly more than 80% of its first (up to) 20 non-null values convert
\* to numbers; with a success rate of exactly 80% (16 of 20, 4 of 5) the
\* column stays text, and a column with no non-null value stays text.  Values
\* beyond the first 20 non-null ones do not influence the decision.
C20_ConvertedIffMostlyNumeric ==
    (LoadDone /\ "sheet" \in DOMAIN call) =>
        \A i \in 1..Len(df.cols) :
            call.sheet.cols[i].dtype = "obj" =>
                IF ConvertsMostly(call.sheet.cols[i].vals) THEN Converted(i)
                ELSE StaysText(i)

\* the rule of C20 for the columns that share their name with no other
\* column of the sheet
C20_RuleOnDistinctNames ==
    (LoadDone /\ "sheet" \in DOMAIN call) =>
        \A i \in 1..Len(df.cols) :
            (call.sheet.cols[i].dtype = "obj" /\ ~shared_name(columns(df), i)) =>
                IF ConvertsMostly(call.sheet.cols[i].vals) THEN Converted(i)
                ELSE StaysText(i)

\* a case of C20 on a column of its own: 16 of the first 20 non-null values
\* read as numbers, every later value does, and the column stays text
C20_SixteenOfTwenty ==
    /\ LoadDone
    /\ "sheet" \in DOMAIN call
    /\ Len(df.cols) = 1
    /\ Cardinality(FirstNonNull(call.sheet.cols[1].vals)) = 20
    /\ Cardinality(ReadsAsNumber(call.sheet.cols[1].vals)) = 16
    /\ notna_sum(to_numeric(call.sheet.cols[1].vals)) > 16
    /\ StaysText(1)

----------------------------------------------------------------------------
(* C21: the semantic step of the matcher.                                  *)

\* the keyword stands in the column as whole space-delimited words
WholeWord(keyword, col) == Contains(" " \o keyword \o " ", " " \o Lower(col) \o " ")

\* the matcher was called with a semantic target that no exact or substring
\* rule matched
SemanticStepTaken ==
    /\ MatcherDone
    /\ Strip(Lower(call.target)) \in DOMAIN mappings
    /\ EqualIgnoringCase(Strip(call.target), call.candidate_columns) = {}
    /\ HoldsOrHeld(Strip(call.target), call.candidate_columns) = {}

\* the keywords, by their place in the list of the target, that stand as
\* whole words in some candidate
KeywordsFound ==
    {k \in 1..Len(mappings[Strip(Lower(call.target))]) :
        \E i \in 1..Len(call.candidate_columns) :
            WholeWord(mappings[Strip(Lower(call.target))][k], call.candidate_columns[i])}

\* the candidates equal to keyword k of the target
EqualToKeyword(k) ==
    {i \in 1..Len(call.candidate_columns) :
        Lower(call.candidate_columns[i]) = mappings[Strip(Lower(call.target))][k]}

\* the candidates in which keyword k of the target stands as whole words
HoldingKeyword(k) ==
    {i \in 1..Len(call.candidate_columns) :
        WholeWord(mappings[Strip(Lower(call.target))][k], call.candidate_columns[i])}

\* C21: in the semantic step of _find_best_column_match the keywords of the
\* target are tried in list order against every column, and for a given
\* keyword a column equal to the keyword is preferred over a column that only
\* contains the keyword as a whole space-delimited word, whatever the order
\* of the columns ('sales' against ['grand total', 'total'] yields 'total');
\* a column in which the keyword is only part of a word is never returned.
C21_EqualBeforeWholeWord ==
    SemanticStepTaken =>
        /\ ~ret.raised
        /\ IF KeywordsFound = {} THEN ret.val = None
           ELSE IF EqualToKeyword(Min(KeywordsFound)) # {}
           THEN ret.val = Some(call.candidate_columns[Min(EqualToKeyword(Min(KeywordsFound)))])
           ELSE ret.val = Some(call.candidate_columns[Min(HoldingKeyword(Min(KeywordsFound)))])

\* the part of C21 the code keeps: the first keyword found decides, and the
\* column returned is the first in candidate order that holds it as whole words
C21_FirstHoldingColumn ==
    SemanticStepTaken =>
        /\ ~ret.raised
        /\ IF KeywordsFound = {} THEN ret.val = None
           ELSE ret.val = Some(call.candidate_columns[Min(HoldingKeyword(Min(KeywordsFound)))])

----------------------------------------------------------------------------
(* C22: the columns generate_pie_chart selects with no hints.              *)

\* generate_pie_chart was called with no hints
PieUnhinted ==
    /\ GeneratorDone
    /\ call.op = "generate_pie_chart"
    /\ ~call.label_column.some
    /\ ~call.value_column.some

label_targets == <<"region", "category", "type", "product">>

value_targets == <<"sales", "total", "revenue", "amount">>

\* the places in `targets` of the targets whose match on the frame d is a
\* column of the list `kind`
MatchedOfKind(d, targets, kind) ==
    {t \in 1..Len(targets) :
        /\ BestColumnMatch(targets[t], columns(d)).some
        /\ InList(BestColumnMatch(targets[t], columns(d)).v, kind)}

\* the column matched by the first such target, and otherwise the column
\* `otherwise`
FirstMatchedOfKind(d, targets, kind, otherwise) ==
    IF MatchedOfKind(d, targets, kind) # {}
    THEN BestColumnMatch(targets[Min(MatchedOfKind(d, targets, kind))], columns(d))
    ELSE Some(otherwise)

\* the label of C22 on a frame with a categorical column
LabelSelected(d) ==
    AutoLabel("generate_pie_chart", d) =
        FirstMatchedOfKind(d, label_targets, suitable(d).categorical,
                           suitable(d).categorical[1])

\* C22, as claimed: with no hints generate_pie_chart selects as label the
\* column matched by the first target in the order region, category, type,
\* product whose match is a categorical column, and otherwise the first
\* categorical column; as value the column matched by the first target in
\* the order sales, total, revenue, amount whose match is a numeric column,
\* and otherwise the first numeric column.
C22_FirstTargetOrFirstColumn ==
    PieUnhinted =>
        /\ suitable(df0).categorical # <<>> => LabelSelected(df0)
        /\ suitable(df0).numeric # <<>> =>
              AutoValue("generate_pie_chart", df0, AutoLabel("generate_pie_chart", df0)) =
                  FirstMatchedOfKind(df0, value_targets, suitable(df0).numeric,
                                     suitable(df0).numeric[1])

\* the numeric column taken when no target gives one: the first, or the
\* second when the first is the label and there is a second
OtherNumeric(d, label_column) ==
    IF Some(suitable(d).numeric[1]) = label_column /\ Len(suitable(d).numeric) > 1
    THEN suitable(d).numeric[2]
    ELSE suitable(d).numeric[1]

\* C22, amended: the label is as claimed; the value is the column matched by
\* the first target whose match is a numeric column, and otherwise the first
\* numeric column, or the second one when the first is the column selected
\* as label and there is a second.  A label chosen through a target is
\* categorical and a value chosen through a target is numeric.
C22_FirstTargetOrOtherColumn ==
    PieUnhinted =>
        /\ suitable(df0).categorical # <<>> => LabelSelected(df0)
        /\ suitable(df0).numeric # <<>> =>
              AutoValue("generate_pie_chart", df0, AutoLabel("generate_pie_chart", df0)) =
                  FirstMatchedOfKind(df0, value_targets, suitable(df0).numeric,
                                     OtherNumeric(df0, AutoLabel("generate_pie_chart", df0)))
        /\ MatchedOfKind(df0, label_targets, suitable(df0).categorical) # {} =>
              InList(AutoLabel("generate_pie_chart", df0).v, suitable(df0).categorical)
        /\ MatchedOfKind(df0, value_targets, suitable(df0).numeric) # {} =>
              InList(AutoValue("generate_pie_chart", df0,
                               AutoLabel("generate_pie_chart", df0)).v,
                     suitable(df0).numeric)

\* C22 witness: no target gives a value column, the first numeric column is
\* the label, and the second numeric column carries the values
C22_Witness ==
    /\ PieUnhinted
    /\ Len(suitable(df0).numeric) > 1
    /\ MatchedOfKind(df0, value_targets, suitable(df0).numeric) = {}
    /\ AutoLabel("generate_pie_chart", df0) = Some(suitable(df0).numeric[1])
    /\ AutoValue("generate_pie_chart", df0, AutoLabel("generate_pie_chart", df0)) =
           Some(suitable(df0).numeric[2])
    /\ ~ret.raised

----------------------------------------------------------------------------
(* C23: the retry of the group-and-sum step.                               *)

\* what groupby(..).sum() and sort_values raise on a value column that holds
\* texts among its numbers
NotNumericFailure(out) == out.raised /\ out.exc = "TypeError"

\* C23: in both pie and bar generation, when the group-and-sum step fails
\* because the value column is not actually numeric, the generator coerces
\* that column to numeric and retries the group-and-sum once; only if the
\* retry fails too does it give up with an error.  So the failure of the
\* first group-and-sum is never what the caller gets, and the caller gets a
\* chart whenever the coerced column can be grouped.
C23_GroupAndSumRetried ==
    (GeneratorDone /\ call.op \in {"generate_pie_chart", "generate_bar_chart"}) =>
        ~NotNumericFailure(ret)

----------------------------------------------------------------------------
(* Pie and bar charts on sheets with more rows than a chart keeps points:  *)
(* a label column 'Region ' and a value column 'Total', drawn with no      *)
(* hints, by the generators and through auto_generate_chart; and line      *)
(* charts over either column.                                              *)

TopLabelPatterns == {"text", "cat", "asc", "pair"}

TopValuePatterns == {"asc", "high", "spread", "hole", "mixed"}

\* the cells of the patterns of these sheets: labels that two rows share,
\* values that grow from 11, values in no order
TopCellOf(p, i) ==
    CASE p = "pair" -> Num((i + 1) \div 2)
      [] p = "high" -> Num(10 + i)
      [] p = "spread" -> Num((7 * i) % 11)
      [] OTHER -> CellOf(p, i)

TopColumn(h, p, n) ==
    LET vals == [i \in 1..n |-> TopCellOf(p, i)]
    IN  Column(h, read_excel_dtype(vals), vals)

LoadTopSheet ==
    /\ pc = "idle"
    /\ ~df.loaded
    /\ \E n \in 0..MaxTopRows, lp \in TopLabelPatterns, vp \in TopValuePatterns :
          LoadData([nrows |-> n,
                    cols |-> <<TopColumn("Region ", lp, n), TopColumn("Total", vp, n)>>])

NextTop ==
    \/ LoadTopSheet
    \/ GeneratePieChart(None, None)
    \/ GenerateBarChart(None, None)
    \/ \E t \in {"pie", "bar"} : AutoGenerateChart(t, None, None)
    \/ \E x \in {None, Some("total")} : GenerateLineChart(x, None)
    \/ Finish

SpecTop == Init /\ [][NextTop]_vars

----------------------------------------------------------------------------
(* C24: the order of the points and the groups kept.                       *)

\* p >= q for two floats of Python: False when one of them is nan
NotLess(p, q) == p.k = "num" /\ q.k = "num" /\ p.v >= q.v

\* the points stand by value, largest first
LargestFirst(data) == \A p \in 1..(Len(data) - 1) : NotLess(data[p].value, data[p + 1].value)

\* the title "<value column> by <label column>" of a configuration names two
\* columns of the dataset
TitleNamesColumns ==
    /\ Len(split_on(ret.val.title, " by ")) = 2
    /\ InList(split_on(ret.val.title, " by ")[1], columns(df))
    /\ InList(split_on(ret.val.title, " by ")[2], columns(df))

\* the groups of the label column of which no point has the name
Omitted(label, data) ==
    {g \in Groups(df, label) : \A p \in 1..Len(data) : data[p].name # CellStr(g)}

\* every point is a group with its sum, and no group left out has a larger
\* sum than a point
TopGroupsKept(label, value, data) ==
    /\ \A p \in 1..Len(data) :
          data[p].value = Num(SumWhere(Col(df, label).vals, Col(df, value).vals,
                                       data[p].name, 1))
    /\ \A g \in Omitted(label, data) : \A p \in 1..Len(data) :
          SumWhere(Col(df, label).vals, Col(df, value).vals, CellStr(g), 1)
              <= data[p].value.v

\* a pie or a bar configuration was returned
PieOrBarConfiguration == pc = "done" /\ df.loaded /\ KindDrawn # "" /\ ~ret.raised

\* C24: in every pie or bar configuration returned by generate_pie_chart,
\* generate_bar_chart or the fallback generator, the points are ordered by
\* value, largest first: for consecutive points p, q in data,
\* p.value >= q.value; and the points kept are the top-N groups by summed
\* value, so no omitted group has a larger sum than a kept one.
C24_LargestFirstTopGroups ==
    PieOrBarConfiguration =>
        /\ LargestFirst(ret.val.data)
        /\ TitleNamesColumns =>
              TopGroupsKept(split_on(ret.val.title, " by ")[2],
                            split_on(ret.val.title, " by ")[1], ret.val.data)

\* the part of C24 that holds of generate_pie_chart: its slices are the
\* groups with the largest sums, largest first
C24_PieSlices ==
    (PieOrBarConfiguration /\ call.op = "generate_pie_chart") =>
        /\ LargestFirst(ret.val.data)
        /\ TitleNamesColumns =>
              TopGroupsKept(split_on(ret.val.title, " by ")[2],
                            split_on(ret.val.title, " by ")[1], ret.val.data)

\* a pie that leaves groups out
C24_PieCut ==
    /\ PieOrBarConfiguration
    /\ call.op = "generate_pie_chart"
    /\ Len(ret.val.data) = 10
    /\ TitleNamesColumns
    /\ Omitted(split_on(ret.val.title, " by ")[2], ret.val.data) # {}

----------------------------------------------------------------------------
(* C25: the points of a line chart.                                        *)

\* generate_line_chart returned a configuration
LineReturned ==
    /\ GeneratorDone
    /\ call.op = "generate_line_chart"
    /\ ~ret.raised

\* the columns the title "<y column> over <x column>" names
LineX == split_on(ret.val.title, " over ")[2]

LineY == split_on(ret.val.title, " over ")[1]

\* the point of row r of the x cells xs and the y cells ys: the x value
\* written out, the y value as a number
RowPoint(xs, ys, r) == [name |-> CellStr(xs[r]), value |-> to_numeric_cell(ys[r])]

\* as many points as rows, and every point as often as rows give it
OnePointPerRow(data, xs, ys) ==
    /\ Len(data) = Len(xs)
    /\ \A p \in 1..Len(data) :
          Cardinality({q \in 1..Len(data) : data[q] = data[p]})
              = Cardinality({r \in 1..Len(xs) : RowPoint(xs, ys, r) = data[p]})

\* consecutive points come from rows of which the second has no smaller x
\* value; rows without an x value stand last
AscendingX(data, xs, ys) ==
    \A p \in 1..(Len(data) - 1) :
        \E r, t \in 1..Len(xs) :
            /\ RowPoint(xs, ys, r) = data[p]
            /\ RowPoint(xs, ys, t) = data[p + 1]
            /\ \/ xs[t].k = "nan"
               \/ /\ xs[r].k # "nan"
                  /\ ~CellLess(xs[t], xs[r])

\* the first column read as text, if there is one
FirstTextColumn(d) == Min({i \in 1..Len(d.cols) : d.cols[i].dtype = "obj"})

\* C25: generate_line_chart performs no aggregation and no truncation: when
\* it succeeds, data has exactly one point per dataset row (name = string of
\* the row's x value, value = number of the row's y value), ordered by
\* ascending x value; with no x hint the x column is the first date/time or
\* text column if there is one, otherwise the first numeric column.
C25_OnePointPerRowAscending ==
    LineReturned =>
        /\ OnePointPerRow(ret.val.data, Col(df, LineX).vals, Col(df, LineY).vals)
        /\ AscendingX(ret.val.data, Col(df, LineX).vals, Col(df, LineY).vals)
        /\ ~call.label_column.some =>
              IF \E i \in 1..Len(df.cols) : df.cols[i].dtype = "obj"
              THEN LineX = columns(df)[FirstTextColumn(df)]
              ELSE suitable(df).numeric # <<>> => LineX = suitable(df).numeric[1]

\* C25 witness: a line chart of more than 20 rows that share x values, drawn
\* with no hints
C25_Witness ==
    /\ LineReturned
    /\ ~call.label_column.some
    /\ df.nrows > 20
    /\ Len(ret.val.data) = df.nrows
    /\ Cardinality({ret.val.data[p].name : p \in 1..Len(ret.val.data)}) < df.nrows

----------------------------------------------------------------------------
(* C26: the kind of a column in the two reports.                           *)

\* get_column_info returned on a loaded dataset
ColumnInfoDone == pc = "done" /\ call.op = "get_column_info" /\ df.loaded /\ ~ret.raised

\* C26: the column kind reported by get_column_info agrees with the
\* classification of find_suitable_columns and get_data_summary: for every
\* column of every loaded dataset, get_column_info reports type 'numeric'
\* exactly when the column is in the 'numeric' list, including for
\* numeric-typed columns with at most two distinct values or a constant value.
C26_KindsAgree ==
    ColumnInfoDone =>
        /\ Len(ret.val) = Len(df.cols)
        /\ \A i \in 1..Len(ret.val) :
              /\ ret.val[i].name = df.cols[i].name
              /\ ret.val[i].type = "numeric"
                    <=> InList(ret.val[i].name, find_suitable_columns(df).val.numeric)
              /\ ret.val[i].type = "numeric"
                    <=> InList(ret.val[i].name, get_data_summary(df).val.numeric_columns)

\* what holds of the two reports: every column of the 'numeric' list is
\* reported 'numeric' by get_column_info, and the lists of get_data_summary
\* are those of find_suitable_columns
C26_NumericListIsNumeric ==
    /\ ColumnInfoDone =>
          \A i \in 1..Len(ret.val) :
              InList(ret.val[i].name, find_suitable_columns(df).val.numeric)
                  => ret.val[i].type = "numeric"
    /\ (pc = "done" /\ call.op = "get_data_summary" /\ df.loaded) =>
          /\ ret.val.numeric_columns = find_suitable_columns(df).val.numeric
          /\ ret.val.categorical_columns = find_suitable_columns(df).val.categorical

----------------------------------------------------------------------------
(* The chat and file services.  A request is answered by one handler at a  *)
(* time; the handlers that stream stand between their steps while the      *)
(* provider answers.  The tables hold what was committed.  What a provider *)
(* answers does not depend on the conversation sent to it, so the history  *)
(* of a request is not followed.                                           *)

\* users that registered
MaxUsers == 2
\* rows the table chat_sessions ever gets
MaxSessions == 2
\* rows the table chat_sessions ever gets where the messages are followed
MaxChatSessions == 1
\* rows the table messages ever gets
MaxMessages == 3
\* rows the table messages ever gets where the sessions are followed
MaxOwnMessages == 2
\* rows the table visualizations ever gets
MaxVisualizations == 2
\* rows the table uploaded_files ever gets
MaxFiles == 1
\* chunks of a provider's answer
MaxChunks == 2

Users == 1..MaxUsers

\* models.py, lines 19 and 30-39: the provider a user selected; every user
\* has the key of the selected provider, and only users of OpenAI have an
\* OpenAI key
llm_provider(user_id) == IF user_id % 2 = 1 THEN "openai" ELSE "anthropic"

openai_api_key(user_id) == IF llm_provider(user_id) = "openai" THEN Some("sk") ELSE None

\* Query.first(): the row or None, as a list of at most one row
first(rows) == IF rows = <<>> THEN <<>> ELSE <<rows[1]>>

\* models.py, lines 42-55
ChatSession(id, user_id, name) == [id |-> id, user_id |-> user_id, name |-> name]

\* models.py, lines 58-71
Message(id, session_id, role, content, is_edited) ==
    [id |-> id, session_id |-> session_id, role |-> role, content |-> content,
     is_edited |-> is_edited]

\* models.py, lines 74-88: file_path is the number of the file in the upload
\* directory
UploadedFile(id, session_id, file_path) ==
    [id |-> id, session_id |-> session_id, file_path |-> file_path]

\* models.py, lines 91-102
Visualization(id, message_id, chart_type, chart_config) ==
    [id |-> id, message_id |-> message_id, chart_type |-> chart_type,
     chart_config |-> chart_config]

\* Session.add and commit of a new row: the table gives the next id
added(d, table, row) ==
    [d EXCEPT ![table] = Append(@, [row EXCEPT !.id = d.last_id[table] + 1]),
              !.last_id[table] = @ + 1]

\* the row just added to a table
newest(d, table) == d[table][Len(d[table])]

\* the rows of a message, loaded with the message (Message.visualizations)
visualizations_of(d, message_id) ==
    SelectSeq(d.visualizations, LAMBDA v : v.message_id = message_id)

messages_of(d, session_id) ==
    SelectSeq(d.messages, LAMBDA m : m.session_id = session_id)

files_of(d, session_id) ==
    SelectSeq(d.uploaded_files, LAMBDA f : f.session_id = session_id)

\* a message as a response shows it, with its visualizations
shown(d, m) ==
    [id |-> m.id, session_id |-> m.session_id, role |-> m.role, content |-> m.content,
     is_edited |-> m.is_edited, visualizations |-> visualizations_of(d, m.id)]

\* ondelete CASCADE of models.py, lines 54-55, 63, 71, 79 and 96: the rows
\* of a session go with it; the files of the upload directory stay
without_session(d, session_id) ==
    [d EXCEPT
       !.chat_sessions = SelectSeq(@, LAMBDA s : s.id # session_id),
       !.messages = SelectSeq(@, LAMBDA m : m.session_id # session_id),
       !.visualizations =
           SelectSeq(@, LAMBDA v : \E i \in 1..Len(d.messages) :
                                       /\ d.messages[i].id = v.message_id
                                       /\ d.messages[i].session_id # session_id),
       !.uploaded_files = SelectSeq(@, LAMBDA f : f.session_id # session_id)]

\* a lookup of a session that does not ask whose it is
get_session_of_anyone(d, session_id, user_id) ==
    first(SelectSeq(d.chat_sessions, LAMBDA s : s.id = session_id))

\* chat/service.py, lines 142-147
get_session(d, session_id, user_id) ==
    first(SelectSeq(d.chat_sessions,
                    LAMBDA s : s.id = session_id /\ s.user_id = user_id))

\* chat/service.py, lines 129-140
get_user_sessions(d, user_id) ==
    SelectSeq(d.chat_sessions, LAMBDA s : s.user_id = user_id)

\* chat/service.py, lines 172-184
get_session_messages(d, session_id, user_id) ==
    IF get_session(d, session_id, user_id) = <<>> THEN <<>>
    ELSE [i \in 1..Len(messages_of(d, session_id)) |->
              shown(d, messages_of(d, session_id)[i])]

\* a request: who makes it, on which rows, with which content, and the locals
\* of the handler that answers it (ai_content, what the provider has still
\* to send of its answer, and the last step the handler reached)
Request(op, user_id, session_id, message_id, file_id, content, stream) ==
    [op |-> op, user_id |-> user_id, session_id |-> session_id,
     message_id |-> message_id, file_id |-> file_id, content |-> content,
     stream |-> stream, ai_content |-> "", answer |-> <<>>, left |-> <<>>,
     reached |-> "start"]

\* fastapi.HTTPException
HTTPException(status_code, detail) ==
    [raised |-> TRUE, exc |-> "HTTPException", msg |-> detail, val |-> status_code]

\* a handler that answers at once
Answers(request, response, d) ==
    /\ pc = "idle"
    /\ pc' = "done"
    /\ call' = request
    /\ ret' = response
    /\ db' = d
    /\ UNCHANGED <<df, df0>>

NotFound(request, detail) == Answers(request, HTTPException(404, detail), db)

\* chat/router.py, lines 20-28
GetSessions(user_id) ==
    Answers(Request("get_sessions", user_id, 0, 0, 0, "", FALSE),
            Return(get_user_sessions(db, user_id)), db)

\* chat/router.py, lines 31-40, and chat/service.py, lines 149-158
CreateSession(user_id, name) ==
    /\ db.last_id.chat_sessions < MaxSessions
    /\ Answers(Request("create_session", user_id, 0, 0, 0, name, FALSE),
               Return(newest(added(db, "chat_sessions", ChatSession(0, user_id, name)),
                             "chat_sessions")),
               added(db, "chat_sessions", ChatSession(0, user_id, name)))

\* chat/router.py, lines 43-58
GetSession(user_id, session_id) ==
    IF get_session(db, session_id, user_id) = <<>>
    THEN NotFound(Request("get_session", user_id, session_id, 0, 0, "", FALSE),
                  "Session not found")
    ELSE Answers(Request("get_session", user_id, session_id, 0, 0, "", FALSE),
                 Return([session |-> get_session(db, session_id, user_id)[1],
                         messages |-> get_session_messages(db, session_id, user_id)]),
                 db)

\* chat/service.py, lines 160-165
update_session(d, session, name) ==
    [d EXCEPT !.chat_sessions =
        [i \in 1..Len(@) |-> IF @[i].id = session.id THEN [@[i] EXCEPT !.name = name]
                             ELSE @[i]]]

\* chat/router.py, lines 61-76
UpdateSession(user_id, session_id, name) ==
    IF get_session(db, session_id, user_id) = <<>>
    THEN NotFound(Request("update_session", user_id, session_id, 0, 0, name, FALSE),
                  "Session not found")
    ELSE Answers(Request("update_session", user_id, session_id, 0, 0, name, FALSE),
                 Return([get_session(db, session_id, user_id)[1] EXCEPT !.name = name]),
                 update_session(db, get_session(db, session_id, user_id)[1], name))

\* chat/router.py, lines 79-93, and chat/service.py, lines 167-170
DeleteSession(user_id, session_id) ==
    IF get_session(db, session_id, user_id) = <<>>
    THEN NotFound(Request("delete_session", user_id, session_id, 0, 0, "", FALSE),
                  "Session not found")
    ELSE Answers(Request("delete_session", user_id, session_id, 0, 0, "", FALSE),
                 Return(<<>>), without_session(db, session_id))

\* chat/router.py, lines 96-110
GetMessages(user_id, session_id) ==
    IF get_session(db, session_id, user_id) = <<>>
    THEN NotFound(Request("get_messages", user_id, session_id, 0, 0, "", FALSE),
                  "Session not found")
    ELSE Answers(Request("get_messages", user_id, session_id, 0, 0, "", FALSE),
                 Return(get_session_messages(db, session_id, user_id)), db)

\* db.query(Message).filter(Message.id == message_id).first()
message_by_id(d, message_id) ==
    first(SelectSeq(d.messages, LAMBDA m : m.id = message_id))

\* chat/service.py, lines 430-436, and the update of lines 536-539
with_content(d, message_id, new_content) ==
    [d EXCEPT !.messages =
        [i \in 1..Len(@) |-> IF @[i].id = message_id
                             THEN [@[i] EXCEPT !.content = new_content, !.is_edited = TRUE]
                             ELSE @[i]]]

\* chat/router.py, lines 223-251
UpdateMessage(user_id, message_id, content) ==
    IF message_by_id(db, message_id) = <<>>
    THEN NotFound(Request("update_message", user_id, 0, message_id, 0, content, FALSE),
                  "Message not found")
    ELSE IF get_session(db, message_by_id(db, message_id)[1].session_id, user_id) = <<>>
    THEN NotFound(Request("update_message", user_id, 0, message_id, 0, content, FALSE),
                  "Session not found")
    ELSE Answers(Request("update_message", user_id, 0, message_id, 0, content, FALSE),
                 Return(shown(with_content(db, message_id, content),
                              message_by_id(with_content(db, message_id, content),
                                            message_id)[1])),
                 with_content(db, message_id, content))

\* what an upload may be: the extension of its name and what its bytes are,
\* a workbook with a sheet of data, a workbook with an empty sheet, or bytes
\* that are no workbook
Uploads ==
    {[extension |-> ".xlsx", content |-> c] : c \in {"workbook", "blank", "garbage"}}
        \cup {[extension |-> ".txt", content |-> "garbage"]}

\* config.py, line 25
ALLOWED_EXTENSIONS == {".xlsx", ".xls"}

\* files/service.py, lines 67-69 and 124-125: the file of a path is written,
\* or removed ("gone")
written(d, file_path, content) ==
    [d EXCEPT !.disk = [i \in 1..Max({Len(@), file_path}) |->
                            IF i = file_path THEN content
                            ELSE IF i <= Len(@) THEN @[i] ELSE "gone"]]

\* os.path.exists, for the path stored or the same name under UPLOAD_DIR
exists(d, file_path) == file_path <= Len(d.disk) /\ d.disk[file_path] # "gone"

\* files/service.py, lines 27-88
upload_file(d, file, session_id, user_id) ==
    IF get_session(d, session_id, user_id) = <<>>
    THEN Left(Raise("ValueError", "Session not found"), d)
    ELSE IF file.extension \notin ALLOWED_EXTENSIONS
    THEN Left(Raise("ValueError", "Invalid file type"), d)
    ELSE Left(Return(newest(added(d, "uploaded_files", UploadedFile(0, session_id, d.last_id.uploaded_files + 1)),
                            "uploaded_files")),
              added(written(d, d.last_id.uploaded_files + 1, file.content),
                    "uploaded_files", UploadedFile(0, session_id, d.last_id.uploaded_files + 1)))

\* files/router.py, lines 16-38
UploadFile(user_id, session_id, file) ==
    /\ db.last_id.uploaded_files < MaxFiles
    /\ Answers(Request("upload_file", user_id, session_id, 0, 0, file, FALSE),
               IF upload_file(db, file, session_id, user_id).out.raised
               THEN HTTPException(400, upload_file(db, file, session_id, user_id).out.msg)
               ELSE upload_file(db, file, session_id, user_id).out,
               upload_file(db, file, session_id, user_id).df)

\* files/service.py, lines 90-103: the newest first
get_session_files(d, session_id, user_id) ==
    IF get_session(d, session_id, user_id) = <<>> THEN <<>>
    ELSE [i \in 1..Len(files_of(d, session_id)) |->
              files_of(d, session_id)[Len(files_of(d, session_id)) + 1 - i]]

\* files/router.py, lines 41-50
GetSessionFiles(user_id, session_id) ==
    Answers(Request("get_session_files", user_id, session_id, 0, 0, "", FALSE),
            Return(get_session_files(db, session_id, user_id)), db)

file_by_id(d, file_id) ==
    first(SelectSeq(d.uploaded_files, LAMBDA f : f.id = file_id))

\* files/service.py, lines 131-149
get_file(d, file_id, user_id) ==
    IF file_by_id(d, file_id) = <<>> THEN <<>>
    ELSE IF get_session(d, file_by_id(d, file_id)[1].session_id, user_id) = <<>> THEN <<>>
    ELSE file_by_id(d, file_id)

\* files/router.py, lines 53-73: the bytes of the file are sent, if it is
\* there
DownloadFile(user_id, file_id) ==
    IF get_file(db, file_id, user_id) = <<>>
    THEN NotFound(Request("download_file", user_id, 0, 0, file_id, "", FALSE),
                  "File not found")
    ELSE Answers(Request("download_file", user_id, 0, 0, file_id, "", FALSE),
                 IF exists(db, get_file(db, file_id, user_id)[1].file_path)
                 THEN Return([file |-> get_file(db, file_id, user_id)[1],
                              content |-> db.disk[get_file(db, file_id, user_id)[1].file_path]])
                 ELSE Raise("RuntimeError", "File does not exist"),
                 db)

\* files/service.py, lines 105-129
delete_file(d, file_id, user_id) ==
    IF file_by_id(d, file_id) = <<>>
    THEN Left(Raise("ValueError", "File not found"), d)
    ELSE IF get_session(d, file_by_id(d, file_id)[1].session_id, user_id) = <<>>
    THEN Left(Raise("ValueError", "Session not found"), d)
    ELSE Left(Return(<<>>),
              [written(d, file_by_id(d, file_id)[1].file_path, "gone")
                  EXCEPT !.uploaded_files = SelectSeq(@, LAMBDA f : f.id # file_id)])

\* files/router.py, lines 76-91
DeleteFile(user_id, file_id) ==
    Answers(Request("delete_file", user_id, 0, 0, file_id, "", FALSE),
            IF delete_file(db, file_id, user_id).out.raised
            THEN HTTPException(404, delete_file(db, file_id, user_id).out.msg)
            ELSE delete_file(db, file_id, user_id).out,
            delete_file(db, file_id, user_id).df)

\* the upload directory loses a file that a row still names (the directory
\* is relative to where the server was started, config.py line 24, and is
\* not part of the database)
FileLost(file_path) ==
    /\ pc = "idle"
    /\ exists(db, file_path)
    /\ db' = written(db, file_path, "gone")
    /\ UNCHANGED <<pc, df, df0, call, ret>>

\* what pd.read_excel finds in the workbooks that are uploaded
WorkbookSheet == Sheet(2, <<"Region ", "Total">>, <<"text", "asc">>)

BlankSheet == Sheet(0, <<>>, <<>>)

\* ChartGenerator.__init__ on a file that exists (chart_generator.py, lines
\* 26-28 and 94-125): the generator with its frame, or the ValueError of
\* _load_data
ChartGenerator(content) ==
    IF content = "garbage" THEN Raise("ValueError", "Failed to load Excel file")
    ELSE Return(<<_load_data(IF content = "blank" THEN BlankSheet ELSE WorkbookSheet)>>)

\* chat/service.py, lines 42-69: None, the generator, or what its
\* constructor raised; the first file is the one of the lowest id
_get_chart_generator_for_session(d, session_id) ==
    IF files_of(d, session_id) = <<>> THEN Return(<<>>)
    ELSE IF ~exists(d, files_of(d, session_id)[1].file_path) THEN Return(<<>>)
    ELSE ChartGenerator(d.disk[files_of(d, session_id)[1].file_path])

\* chat/service.py, lines 71-81
_create_visualization(d, message_id, chart_type, chart_config) ==
    Left(Return(<<newest(added(d, "visualizations",
                               Visualization(0, message_id, chart_type, chart_config)),
                         "visualizations")>>),
         added(d, "visualizations", Visualization(0, message_id, chart_type, chart_config)))

\* chat/service.py, lines 107-127: whatever the generator raises is caught
chart_or_none(d, chart_request, chart, message_id) ==
    IF chart.raised THEN Left(Return(<<>>), d)
    ELSE _create_visualization(d, message_id, chart_request.chart_type, chart.val)

\* chat/service.py, lines 102-127: the generator is built before the try
chart_of_generator(d, chart_request, generator, message_id) ==
    IF generator.raised THEN Left(generator, d)
    ELSE IF generator.val = <<>> THEN Left(Return(<<>>), d)
    ELSE chart_or_none(d, chart_request,
                       auto_generate_chart(generator.val[1], chart_request.chart_type,
                                           chart_request.label_column,
                                           chart_request.value_column).out,
                       message_id)

chart_of_request(d, chart_request, message_id, session_id) ==
    IF ~chart_request.some THEN Left(Return(<<>>), d)
    ELSE chart_of_generator(d, chart_request.v,
                            _get_chart_generator_for_session(d, session_id), message_id)

\* chat/service.py, lines 83-127: the visualization (a list of one), None (the
\* empty list), or what was raised, and the tables it leaves
_detect_and_create_chart(d, user_message, message_id, session_id) ==
    chart_of_request(d, parse_chart_request(user_message), message_id, session_id)

\* what users write
ChatContents == {"hello", "pie chart of sales by region"}

\* the pieces a provider's answer comes in
Chunks == <<"Here ", "you ", "are ">>

\* the answers a provider may give: at most MaxChunks pieces
ProviderAnswers == {[i \in 1..k |-> Chunks[1 + ((i - 1) % 3)]] : k \in 1..MaxChunks}

\* ai_content of a whole answer
RECURSIVE Concat(_)
Concat(chunks) == IF chunks = <<>> THEN "" ELSE chunks[1] \o Concat(Tail(chunks))

\* an event of the stream a request is answered with (chat/router.py, lines
\* 119, 120 and 125)
Event(content, error, done) == [content |-> content, error |-> error, done |-> done]

DataEvent(chunk) == Event(chunk, "", FALSE)

DoneEvent == Event("", "", TRUE)

ErrorEvent(e) == Event("", e, TRUE)

\* chat/router.py, lines 147-196: an entry for each file of the session that
\* is found in the upload directory, readable or not; whose session it is
\* is not asked
file_context(d, session_id) ==
    SelectSeq(files_of(d, session_id), LAMBDA f : exists(d, f.file_path))

\* chat/service.py, lines 265-271, and chat/openai_client.py, lines 50-80: the
\* branch a request takes, and the NameError of line 69 (file_content is no
\* name of the function) when there is file context
formatting_fails(user_id, context) ==
    llm_provider(user_id) = "openai" /\ openai_api_key(user_id).some /\ context # <<>>

\* how a handler fails: a streaming response ends with an error event
\* (chat/router.py, lines 122-125), another response is the exception
Fails(request, events, e, m) ==
    IF request.stream THEN Return(Append(events, ErrorEvent(m))) ELSE Raise(e, m)

\* a handler that keeps the user message back
user_message_kept_back(d, session_id, content) == d

\* chat/service.py, lines 204-212 and 326-334
user_message_added(d, session_id, content) ==
    added(d, "messages", Message(0, session_id, "user", content, FALSE))

\* chat/router.py, lines 128-220, with chat/service.py, lines 196-271 and
\* 318-385: the ownership check, the commit of the user message and the
\* formatting of the conversation; then the provider is called
SendMessage(user_id, session_id, content, stream) ==
    /\ pc = "idle"
    /\ db.last_id.messages + 2 <= MaxMessages
    /\ db.last_id.visualizations < MaxVisualizations
    /\ call' = Request(IF stream THEN "stream_message" ELSE "create_message",
                       user_id, session_id, 0, 0, content, stream)
    /\ IF get_session(db, session_id, user_id) = <<>>
       THEN /\ pc' = "done"
            /\ ret' = Fails(call', <<>>, "ValueError", "Session not found")
            /\ db' = db
       ELSE /\ db' = user_message_added(db, session_id, content)
            /\ IF formatting_fails(user_id, file_context(db, session_id))
               THEN /\ pc' = "done"
                    /\ ret' = Fails(call', <<>>, "NameError",
                                    "name 'file_content' is not defined")
               ELSE /\ pc' = "provider"
                    /\ ret' = Return(<<>>)
    /\ UNCHANGED <<df, df0>>

\* chat/service.py, lines 438-461, after chat/router.py, lines 254-292: the
\* message and the session are looked up; then the provider is called
\* (file_context is "" here, router line 278)
RegenerateMessage(user_id, message_id) ==
    /\ pc = "idle"
    /\ db.last_id.visualizations < MaxVisualizations
    /\ UNCHANGED <<df, df0, db>>
    /\ IF message_by_id(db, message_id) = <<>>
       THEN /\ pc' = "done"
            /\ call' = Request("regenerate_message", user_id, 0, message_id, 0, "", FALSE)
            /\ ret' = HTTPException(404, "Message not found")
       ELSE /\ call' = Request("regenerate_message", user_id,
                               message_by_id(db, message_id)[1].session_id,
                               message_id, 0, "", TRUE)
            /\ IF get_session(db, message_by_id(db, message_id)[1].session_id, user_id) = <<>>
               THEN /\ pc' = "done"
                    /\ ret' = Fails(call', <<>>, "ValueError", "Session not found")
               ELSE IF message_by_id(db, message_id)[1].role # "assistant"
               THEN /\ pc' = "done"
                    /\ ret' = Fails(call', <<>>, "ValueError",
                                    "Message not found or is not an assistant message")
               ELSE /\ pc' = "provider"
                    /\ ret' = Return(<<>>)

\* chat/service.py, lines 289-297 and 397-405
assistant_message_added(d, session_id, ai_content) ==
    added(d, "messages", Message(0, session_id, "assistant", ai_content, FALSE))

\* chat/service.py, lines 273-297, in create_message: the provider gives its
\* whole answer and the assistant message is committed
ProviderReturns(answer) ==
    /\ pc = "provider"
    /\ ~call.stream
    /\ pc' = "stored"
    /\ db' = assistant_message_added(db, call.session_id, Concat(answer))
    /\ call' = [call EXCEPT !.answer = answer, !.ai_content = Concat(answer),
                            !.message_id = newest(db', "messages").id,
                            !.reached = "stored"]
    /\ UNCHANGED <<df, df0, ret>>

\* chat/service.py, lines 373-394 and 509-530: the provider starts to stream
\* its answer
ProviderStreams(answer) ==
    /\ pc = "provider"
    /\ call.stream
    /\ pc' = "streaming"
    /\ call' = [call EXCEPT !.answer = answer, !.left = answer]
    /\ UNCHANGED <<df, df0, ret, db>>

\* chat/service.py, lines 382-383, 393-394, 518-519 and 529-530, and
\* chat/router.py, line 119: a chunk arrives and is passed on
StreamChunk ==
    /\ pc = "streaming"
    /\ call.left # <<>>
    /\ call' = [call EXCEPT !.ai_content = @ \o Head(call.left), !.left = Tail(@)]
    /\ ret' = Return(Append(ret.val, DataEvent(Head(call.left))))
    /\ UNCHANGED <<pc, df, df0, db>>

\* chat/service.py, lines 396-405 and 535-539: the stream of the provider is
\* over; the assistant message is committed, or updated when it is
\* regenerated
StreamEnds ==
    /\ pc = "streaming"
    /\ call.left = <<>>
    /\ pc' = "stored"
    /\ IF call.op = "regenerate_message"
       THEN /\ db' = with_content(db, call.message_id, call.ai_content)
            /\ call' = [call EXCEPT !.reached = "stored"]
       ELSE /\ db' = assistant_message_added(db, call.session_id, call.ai_content)
            /\ call' = [call EXCEPT !.message_id = newest(db', "messages").id,
                                    !.reached = "stored"]
    /\ UNCHANGED <<df, df0, ret>>

\* the provider raises, before its answer or in the middle of it (the
\* providers raise Exception("... API error"), openai_client.py, line 47)
ProviderFails ==
    /\ pc \in {"provider", "streaming"}
    /\ pc' = "done"
    /\ ret' = Fails(call, ret.val, "Exception", "API error")
    /\ UNCHANGED <<df, df0, call, db>>

\* the client of a streaming response goes away: the generator is closed
\* where it stands
ClientLeaves ==
    /\ pc \in {"provider", "streaming"}
    /\ call.stream
    /\ pc' = "done"
    /\ ret' = [ret EXCEPT !.msg = "closed"]
    /\ UNCHANGED <<df, df0, call, db>>

\* chat/service.py, lines 541-546: the user message before the regenerated
\* one
previous_user_msg(d, session_id, message_id) ==
    SelectSeq(d.messages, LAMBDA m : /\ m.session_id = session_id
                                     /\ m.id < message_id
                                     /\ m.role = "user")

\* the message the chart is detected in: the one sent, or the last user
\* message before the one regenerated (none: nothing is detected)
detected_in(d, request) ==
    IF request.op # "regenerate_message" THEN <<request.content>>
    ELSE IF previous_user_msg(d, request.session_id, request.message_id) = <<>> THEN <<>>
    ELSE <<previous_user_msg(d, request.session_id, request.message_id)[
               Len(previous_user_msg(d, request.session_id, request.message_id))].content>>

\* chat/service.py, lines 299-306, 407-428 and 548-554
detection(d, request) ==
    IF detected_in(d, request) = <<>> THEN Left(Return(<<>>), d)
    ELSE _detect_and_create_chart(d, detected_in(d, request)[1], request.message_id,
                                  request.session_id)

\* what the handler answers after the detection: what the detection raised,
\* or the end of the stream, or the assistant message
answer_after(request, events, chart) ==
    IF chart.out.raised THEN Fails(request, events, chart.out.exc, chart.out.msg)
    ELSE IF request.stream THEN Return(Append(events, DoneEvent))
    ELSE Return(shown(chart.df, message_by_id(chart.df, request.message_id)[1]))

\* chat/service.py, lines 299-306, 407-428 and 548-554: the chart is
\* detected and the visualization committed, and the response ends
DetectAndCreateChart ==
    /\ pc = "stored"
    /\ pc' = "done"
    /\ db' = detection(db, call).df
    /\ ret' = answer_after(call, ret.val, detection(db, call))
    /\ call' = [call EXCEPT !.reached = "detected"]
    /\ UNCHANGED <<df, df0>>

\* the requests and the steps of their handlers, while the tables have had
\* fewer sessions and messages than given
Requests(max_sessions, max_messages) ==
    \/ \E user_id \in Users :
          \/ GetSessions(user_id)
          \/ db.last_id.chat_sessions < max_sessions /\ CreateSession(user_id, "chat")
          \/ \E session_id \in 1..MaxSessions :
                \/ GetSession(user_id, session_id)
                \/ UpdateSession(user_id, session_id, "renamed")
                \/ DeleteSession(user_id, session_id)
                \/ GetMessages(user_id, session_id)
                \/ GetSessionFiles(user_id, session_id)
                \/ \E file \in Uploads : UploadFile(user_id, session_id, file)
                \/ \E content \in ChatContents, stream \in BOOLEAN :
                      /\ db.last_id.messages + 2 <= max_messages
                      /\ SendMessage(user_id, session_id, content, stream)
          \/ \E message_id \in 1..MaxMessages :
                \/ \E content \in ChatContents : UpdateMessage(user_id, message_id, content)
                \/ RegenerateMessage(user_id, message_id)
          \/ \E file_id \in 1..MaxFiles :
                \/ DownloadFile(user_id, file_id)
                \/ DeleteFile(user_id, file_id)
    \/ \E answer \in ProviderAnswers :
          \/ ProviderReturns(answer)
          \/ ProviderStreams(answer)
    \/ StreamChunk
    \/ StreamEnds
    \/ ProviderFails
    \/ ClientLeaves
    \/ DetectAndCreateChart
    \/ \E file_path \in 1..MaxFiles : FileLost(file_path)
    \/ Finish

\* one session, with the messages of two requests
NextChat == Requests(MaxChatSessions, MaxMessages)

SpecChat == Init /\ [][NextChat]_vars

\* two sessions, with the messages of one request
NextOwn == Requests(MaxSessions, MaxOwnMessages)

SpecOwn == Init /\ [][NextOwn]_vars

----------------------------------------------------------------------------
(* C27: chart detection and the requests that run it.                      *)

MessageOps == {"create_message", "stream_message", "regenerate_message"}

\* a message request whose handler came to the chart detection has ended
Detected == pc = "done" /\ call.op \in MessageOps /\ call.reached = "detected"

\* the response is an exception, or a stream with an error event
Failed(request, response) ==
    \/ response.raised
    \/ request.stream /\ \E i \in 1..Len(response.val) : response.val[i].error # ""

\* C27: whatever goes wrong in the chart detection of create_message,
\* stream_message and regenerate_message, the request does not fail: the
\* stored assistant message is returned, or the stream ends without an error
\* event.
C27_DetectionNeverFails == Detected => ~Failed(call, ret)

\* the cases of C27 that the detection does answer with no visualization:
\* no file, a file that is gone, a chart that cannot be built
C27_QuietCases ==
    (/\ Detected
     /\ \/ files_of(db, call.session_id) = <<>>
        \/ ~exists(db, files_of(db, call.session_id)[1].file_path)
        \/ db.disk[files_of(db, call.session_id)[1].file_path] # "garbage")
        => ~Failed(call, ret)

----------------------------------------------------------------------------
(* C28: the visualizations of a message.                                   *)

\* C28: after any requests to send and to regenerate, every assistant message
\* has at most one visualization (regenerating replaces it), and no user
\* message has one.
C28_AtMostOneVisualization ==
    \A i \in 1..Len(db.messages) :
        Len(visualizations_of(db, db.messages[i].id))
            <= (IF db.messages[i].role = "assistant" THEN 1 ELSE 0)

\* the part of C28 on user messages: every visualization belongs to an
\* assistant message that is stored
C28_OnlyAssistantMessages ==
    \A i \in 1..Len(db.visualizations) :
        /\ message_by_id(db, db.visualizations[i].message_id) # <<>>
        /\ message_by_id(db, db.visualizations[i].message_id)[1].role = "assistant"

\* and an assistant message that was never regenerated or edited has at most
\* one
C28_OneUntilRegenerated ==
    \A i \in 1..Len(db.messages) :
        ~db.messages[i].is_edited => Len(visualizations_of(db, db.messages[i].id)) <= 1

----------------------------------------------------------------------------
(* C29: whose rows a request reads and writes.                             *)

\* the session is stored and belongs to somebody else
owned_by_other(d, user_id, session_id) ==
    \E i \in 1..Len(d.chat_sessions) :
        /\ d.chat_sessions[i].id = session_id
        /\ d.chat_sessions[i].user_id # user_id

\* the files of the sessions of the other users
files_of_others(d, user_id) ==
    SelectSeq(d.uploaded_files, LAMBDA f : owned_by_other(d, user_id, f.session_id))

\* the rows of the sessions of the other users, and what their files hold in
\* the upload directory
rows_of_others(d, user_id) ==
    [chat_sessions |-> SelectSeq(d.chat_sessions, LAMBDA s : s.user_id # user_id),
     messages |-> SelectSeq(d.messages,
                            LAMBDA m : owned_by_other(d, user_id, m.session_id)),
     visualizations |->
         SelectSeq(d.visualizations,
                   LAMBDA v : /\ message_by_id(d, v.message_id) # <<>>
                              /\ owned_by_other(d, user_id,
                                     message_by_id(d, v.message_id)[1].session_id)),
     uploaded_files |-> files_of_others(d, user_id),
     files |-> [k \in 1..Len(files_of_others(d, user_id)) |->
                   IF exists(d, files_of_others(d, user_id)[k].file_path)
                   THEN d.disk[files_of_others(d, user_id)[k].file_path] ELSE "gone"]]

\* the session a request is about: the one it names, or the one of the
\* message or of the file it names (0: there is no such row)
session_of_request(d, request) ==
    IF request.op \in {"update_message", "regenerate_message"}
    THEN IF message_by_id(d, request.message_id) = <<>> THEN 0
         ELSE message_by_id(d, request.message_id)[1].session_id
    ELSE IF request.op \in {"download_file", "delete_file"}
    THEN IF file_by_id(d, request.file_id) = <<>> THEN 0
         ELSE file_by_id(d, request.file_id)[1].session_id
    ELSE request.session_id

\* the request is about a session of another user
Foreign(d, request) == owned_by_other(d, request.user_id, session_of_request(d, request))

\* the response holds no row: an exception, an empty list, or a stream of one
\* error event
Refused(request, response) ==
    \/ response.raised
    \/ response.val = <<>>
    \/ request.stream /\ Len(response.val) = 1 /\ response.val[1].error # ""

\* C29: no request of a user returns or changes a session, message,
\* visualization or file of a session of another user: a request about such
\* a session is refused at once with all rows as they were, and no step of
\* any request changes a row or a file of a session of another user.
C29_OnlyOwnSessions ==
    [][/\ (pc = "idle" /\ pc' # "idle" /\ call'.op # "_load_data" /\ Foreign(db, call'))
           => (pc' = "done" /\ db' = db /\ Refused(call', ret'))
       /\ call'.op \notin {"none", "_load_data"}
           => rows_of_others(db', call'.user_id) = rows_of_others(db, call'.user_id)]_vars

\* a user who has a session asked to regenerate a message of the session of
\* another user, which has a file, and was refused
C29_Witness ==
    /\ pc = "done"
    /\ get_user_sessions(db, call.user_id) # <<>>
    /\ call.op = "regenerate_message"
    /\ Foreign(db, call)
    /\ Refused(call, ret)
    /\ db.uploaded_files # <<>>
    /\ Len(db.messages) >= 2

----------------------------------------------------------------------------
(* C30: the order of the steps of create_message and stream_message.       *)

Sending(request) == request.op \in {"create_message", "stream_message"}

\* the user message of the request is the last row of the table messages: it
\* is stored, and neither an assistant message nor a visualization has
\* followed it
UserMessageWaits(d, request) ==
    /\ d.messages # <<>>
    /\ newest(d, "messages")
           = Message(d.last_id.messages, request.session_id, "user", request.content, FALSE)
    /\ visualizations_of(d, d.last_id.messages) = <<>>

\* the step begins to answer a request to send
SendBegins == pc = "idle" /\ pc' # "idle" /\ call'.op \in {"create_message", "stream_message"}

\* the step commits an assistant message
AssistantCommitted ==
    /\ Len(db'.messages) > Len(db.messages)
    /\ newest(db', "messages").role = "assistant"

\* the step commits a visualization
VisualizationCommitted == Len(db'.visualizations) > Len(db.visualizations)

\* the step ends a request to send while the provider is awaited or answers
SendBreaks == pc \in {"provider", "streaming"} /\ pc' = "done" /\ Sending(call)

\* C30: in create_message and stream_message the ownership check comes
\* first, then the commit of the user message, the provider call, the commit
\* of the assistant message with the complete response, and then the chart
\* detection: the user message is committed only for the owner of the
\* session, an assistant message is committed only when the whole answer has
\* arrived, a visualization is committed only for an assistant message that
\* is stored, and a provider failure or an abandoned stream leaves the user
\* message with no assistant message and no visualization.
C30_StepsInOrder ==
    [][/\ SendBegins =>
             IF get_session(db, call'.session_id, call'.user_id) = <<>>
             THEN pc' = "done" /\ db' = db
             ELSE /\ UserMessageWaits(db', call')
                  /\ db' = [db EXCEPT !.messages = Append(@, newest(db', "messages")),
                                      !.last_id.messages = @ + 1]
       /\ AssistantCommitted =>
             /\ Sending(call)
             /\ pc \in {"provider", "streaming"}
             /\ pc' = "stored"
             /\ UserMessageWaits(db, call)
             /\ call'.answer # <<>>
             /\ call'.left = <<>>
             /\ newest(db', "messages").content = Concat(call'.answer)
             /\ newest(db', "messages").session_id = call.session_id
             /\ db'.visualizations = db.visualizations
       /\ VisualizationCommitted =>
             /\ pc = "stored"
             /\ message_by_id(db, newest(db', "visualizations").message_id) # <<>>
             /\ message_by_id(db, newest(db', "visualizations").message_id)[1].role
                    = "assistant"
             /\ newest(db', "visualizations").message_id = call.message_id
             /\ Sending(call) => newest(db, "messages").id = call.message_id
       /\ (pc \in {"provider", "streaming"} /\ Sending(call)) => UserMessageWaits(db, call)
       /\ SendBreaks => db' = db /\ UserMessageWaits(db', call')]_vars

\* a first request to send broke off after its user message was stored; a
\* second one went through all its steps and left an assistant message with
\* the whole answer and a visualization
C30_Witness ==
    /\ pc = "done"
    /\ Sending(call)
    /\ call.reached = "detected"
    /\ Len(db.messages) = 3
    /\ db.messages[1].role = "user"
    /\ db.messages[2].role = "user"
    /\ db.messages[3].role = "assistant"
    /\ db.messages[3].content = Concat(call.answer)
    /\ Len(call.answer) = MaxChunks
    /\ visualizations_of(db, 3) # <<>>

====
